---- MODULE Spec2Model ----
(***************************************************************************)
(* A model of the region rewriter and the restricted YAML readers of       *)
(* plugins/dev-helper/scripts (sync_skill.py, validate_init.py), of the    *)
(* scripts built on them (sync_skill, create_module, copy_templates) and   *)
(* of the InkMon validator (validate_inkmon.py).                           *)
(*                                                                         *)
(* Text is a sequence of characters.  In documents the two marker          *)
(* comments of a region are single characters of the sequence (a marker    *)
(* is matched whole or not at all); every other character is a             *)
(* one-character string.                                                   *)
(***************************************************************************)
EXTENDS Integers, Sequences, FiniteSets, TLC

VARIABLES
    doc,        \* rewriters: the document handed to read_region / write_region /
                \* update_core_modules_table
    content,    \* region rewriter: the new_content argument of the last write
    out,        \* rewriters: the value returned (or the error raised) by the first call
    out2,       \* rewriters: the value returned by the follow-up call
    op,         \* rewriters: which calls have been made
    text,       \* yaml readers: the input text, a sequence of lines
    parsed,     \* yaml readers: the mapping returned by the reader
    yop,        \* yaml readers: which reader has been called
    modules,    \* scripts: the list of module dicts (argument of the table rewriter,
                \* result of scan_references)
    files,      \* scripts: the file system, a function from paths to file contents
    found,      \* scripts: the file system as the last call found it
    args,       \* scripts: the arguments of the last call
    result,     \* scripts: the value returned (or the error raised) by the last call
    call        \* scripts: the number of calls made

vars == <<doc, content, out, out2, op, text, parsed, yop,
          modules, files, found, args, result, call>>
regionVars == <<doc, content, out, out2, op>>
yamlVars == <<text, parsed, yop>>
scriptVars == <<modules, files, found, args, result, call>>

(***************************************************************************)
(* Bounds of the model.                                                    *)
(***************************************************************************)
MaxDocLen == 5
MaxLines == 4

(***************************************************************************)
(* Characters and small helpers on text.                                   *)
(***************************************************************************)
BS == "\\"
NL == "\n"
SP == " "

\* str.isspace / the regex class \s, on the characters of the model
IsSpace(ch) == ch \in {SP, NL}

\* str.lstrip() / the greedy \s* at the start of a text
RECURSIVE LStrip(_)
LStrip(s) == IF s # <<>> /\ IsSpace(Head(s)) THEN LStrip(Tail(s)) ELSE s

\* str.rstrip()
RECURSIVE RStrip(_)
RStrip(s) ==
    IF s # <<>> /\ IsSpace(s[Len(s)]) THEN RStrip(SubSeq(s, 1, Len(s) - 1)) ELSE s

\* str.strip()
Strip(s) == RStrip(LStrip(s))

\* the value None of an Optional[str]
None == <<"None">>

\* the re.error raised by Pattern.sub for a bad replacement template
ReError == <<"re.error">>

(***************************************************************************)
(* Region rewriter, sync_skill.py.                                         *)
(***************************************************************************)
StartMarker(region_name) == "<!-- region Generated " \o region_name \o " Start -->"
EndMarker(region_name) == "<!-- region Generated " \o region_name \o " End -->"

NoMatch == [s |-> 0, e |-> 0]

\* Pattern.search from position `from` of
\*   Start \s* .*? End   (re.DOTALL)
\* the leftmost Start marker that has an End marker after it, up to the
\* first such End marker; s and e are the positions of the two markers.
RegionSearch(d, region_name, from) ==
    LET starts == {i \in from..Len(d) :
                      /\ d[i] = StartMarker(region_name)
                      /\ \E j \in (i + 1)..Len(d) : d[j] = EndMarker(region_name)}
    IN  IF starts = {} THEN NoMatch
        ELSE LET i == CHOOSE k \in starts : \A m \in starts : k <= m
                 j == CHOOSE k \in (i + 1)..Len(d) :
                          /\ d[k] = EndMarker(region_name)
                          /\ \A m \in (i + 1)..(k - 1) : d[m] # EndMarker(region_name)
             IN  [s |-> i, e |-> j]

\* read_region: group(1) of the first match is what follows the greedy \s*,
\* and is stripped before it is returned
read_region(d, region_name) ==
    LET m == RegionSearch(d, region_name, 1)
    IN  IF m = NoMatch THEN None
        ELSE Strip(LStrip(SubSeq(d, m.s + 1, m.e - 1)))

Digits == {"0", "1", "2", "3", "4", "5", "6", "7", "8", "9"}
OctDigits == {"0", "1", "2", "3", "4", "5", "6", "7"}
AsciiLetters ==
    {"a", "b", "c", "d", "e", "f", "g", "h", "i", "j", "k", "l", "m",
     "n", "o", "p", "q", "r", "s", "t", "u", "v", "w", "x", "y", "z",
     "A", "B", "C", "D", "E", "F", "G", "H", "I", "J", "K", "L", "M",
     "N", "O", "P", "Q", "R", "S", "T", "U", "V", "W", "X", "Y", "Z"}
\* the letters of re's ESCAPES table other than n: \a \b \f \r \t \v
ControlEscapes == {"a", "b", "f", "r", "t", "v"}

\* the control character written for one of them
Ctl(c) == "chr(\\" \o c \o ")"

\* the character written for \ooo in a template
Chr(d1, d2, d3) == "chr(0o" \o d1 \o d2 \o d3 \o ")"

\* the number of groups of the pattern of write_region
PatternGroups == 2

\* re's parse_template and expansion of the replacement `t` from position i,
\* with g1 and g2 the text of the two groups of the match: the expanded text,
\* or ReError when the template is rejected.
RECURSIVE ExpandTemplate(_, _, _, _)
ExpandTemplate(t, i, g1, g2) ==
    LET then(k, lit) ==
            LET rest == ExpandTemplate(t, k, g1, g2)
            IN  IF rest = ReError THEN ReError ELSE lit \o rest
    IN  IF i > Len(t) THEN <<>>
        ELSE IF t[i] # BS THEN                           \* literal text up to the next escape
            LET escapes == {j \in i..Len(t) : t[j] = BS}
                k == IF escapes = {} THEN Len(t) + 1
                     ELSE CHOOSE j \in escapes : \A m \in escapes : j <= m
            IN  then(k, SubSeq(t, i, k - 1))
        ELSE IF i = Len(t) THEN ReError                  \* bad escape (end of pattern)
        ELSE LET c == t[i + 1]
                 n1 == IF i + 2 <= Len(t) THEN t[i + 2] ELSE ""
                 n2 == IF i + 3 <= Len(t) THEN t[i + 3] ELSE ""
             IN  IF c = "g" THEN ReError                 \* \g needs <name>: not in the model's texts
                 ELSE IF c = "0" THEN
                     IF n1 \in OctDigits
                     THEN IF n2 \in OctDigits
                          THEN then(i + 4, <<Chr(c, n1, n2)>>)
                          ELSE then(i + 3, <<Chr("0", c, n1)>>)
                     ELSE then(i + 2, <<Chr("0", "0", c)>>)
                 ELSE IF c \in Digits THEN
                     IF n1 \in Digits
                     THEN IF c \in OctDigits /\ n1 \in OctDigits /\ n2 \in OctDigits
                          THEN IF c \in {"4", "5", "6", "7"}
                               THEN ReError              \* octal escape value outside of range
                               ELSE then(i + 4, <<Chr(c, n1, n2)>>)
                          ELSE ReError                   \* invalid group reference (two digits)
                     ELSE IF c = "1" THEN then(i + 2, g1)
                     ELSE IF c = "2" /\ PatternGroups >= 2 THEN then(i + 2, g2)
                     ELSE ReError                        \* invalid group reference
                 ELSE IF c = BS THEN then(i + 2, <<BS>>)
                 ELSE IF c = "n" THEN then(i + 2, <<NL>>)
                 ELSE IF c \in ControlEscapes THEN then(i + 2, <<Ctl(c)>>)
                 ELSE IF c \in AsciiLetters THEN ReError \* bad escape
                 ELSE then(i + 2, <<BS, c>>)

\* the replacement string f'\\1\n{new_content}\n\\2'
Replacement(new_content) == <<BS, "1", NL>> \o new_content \o <<NL, BS, "2">>

\* Pattern.sub over the rest of the document from position `from`: every
\* non-overlapping match, left to right, is replaced by the expansion
RECURSIVE SubFrom(_, _, _, _)
SubFrom(d, region_name, expansion, from) ==
    LET m == RegionSearch(d, region_name, from)
    IN  IF m = NoMatch THEN SubSeq(d, from, Len(d))
        ELSE SubSeq(d, from, m.s - 1) \o expansion
                 \o SubFrom(d, region_name, expansion, m.e + 1)

\* write_region with the rewritten document stripped before it is returned
write_region_stripped(d, region_name, new_content) ==
    LET expansion == ExpandTemplate(Replacement(new_content), 1,
                                    <<StartMarker(region_name)>>,
                                    <<EndMarker(region_name)>>)
    IN  IF expansion = ReError THEN ReError
        ELSE Strip(SubFrom(d, region_name, expansion, 1))

\* write_region: the template is compiled before any match is looked for
write_region(d, region_name, new_content) ==
    LET expansion == ExpandTemplate(Replacement(new_content), 1,
                                    <<StartMarker(region_name)>>,
                                    <<EndMarker(region_name)>>)
    IN  IF expansion = ReError THEN ReError
        ELSE SubFrom(d, region_name, expansion, 1)

(***************************************************************************)
(* Restricted YAML readers: parse_yaml_simple (sync_skill.py) and          *)
(* parse_yaml_frontmatter (validate_init.py).                              *)
(*                                                                         *)
(* A text is a sequence of lines (what split('\n') gives), a line a        *)
(* sequence of characters.  A mapping (a dict) is a sequence of entries    *)
(* [k, v] in insertion order; a value is a string, a list of values or an  *)
(* object (a mapping), each a record with the same three fields.           *)
(***************************************************************************)
Str(s) == [t |-> "str", s |-> s, items |-> <<>>]
List(items) == [t |-> "list", s |-> <<>>, items |-> items]
Obj(m) == [t |-> "obj", s |-> <<>>, items |-> m]

\* key in dict
DictHas(m, key) == \E i \in 1..Len(m) : m[i].k = key

\* dict[key]
DictGet(m, key) == m[CHOOSE i \in 1..Len(m) : m[i].k = key].v

\* dict[key] = value with a present key moved to the end
DictSetMoved(m, key, value) ==
    Append(SelectSeq(m, LAMBDA e : e.k # key), [k |-> key, v |-> value])

\* dict[key] = value: a present key keeps its place, a new key goes last
DictSet(m, key, value) ==
    IF DictHas(m, key)
    THEN [i \in 1..Len(m) |-> IF m[i].k = key THEN [k |-> key, v |-> value] ELSE m[i]]
    ELSE Append(m, [k |-> key, v |-> value])

\* the regex class \w
IsWord(ch) == ch \in AsciiLetters \cup Digits \cup {"_"}

QuoteChars == {"\"", "'"}

\* the quotes left in place
StripQuotesNot(s) == s

\* str.strip('"\'')
RECURSIVE StripQuotes(_)
StripQuotes(s) ==
    IF s # <<>> /\ Head(s) \in QuoteChars THEN StripQuotes(Tail(s))
    ELSE IF s # <<>> /\ s[Len(s)] \in QuoteChars
         THEN StripQuotes(SubSeq(s, 1, Len(s) - 1))
         ELSE s

\* str.startswith
StartsWith(s, prefix) ==
    Len(s) >= Len(prefix) /\ SubSeq(s, 1, Len(prefix)) = prefix

\* str.split(sep)
RECURSIVE Split(_, _)
Split(s, sep) ==
    IF \A i \in 1..Len(s) : s[i] # sep THEN <<s>>
    ELSE LET i == CHOOSE k \in 1..Len(s) :
                      s[k] = sep /\ \A m \in 1..(k - 1) : s[m] # sep
         IN  <<SubSeq(s, 1, i - 1)>> \o Split(SubSeq(s, i + 1, Len(s)), sep)

\* the length of the match of \w+ at the start of s (0: no match)
RECURSIVE WordLen(_)
WordLen(s) == IF s # <<>> /\ IsWord(Head(s)) THEN 1 + WordLen(Tail(s)) ELSE 0

\* ^(\w*):\s*(.*)$ : a key may be empty
KvMatchesEmptyKey(line) ==
    LET n == WordLen(line) IN Len(line) > n /\ line[n + 1] = ":"

\* ^(\w+):\s*(.*)$ : the key, and the value with the \s* run removed
KvMatches(line) ==
    LET n == WordLen(line) IN n >= 1 /\ Len(line) > n /\ line[n + 1] = ":"
KvKey(line) == SubSeq(line, 1, WordLen(line))
KvValue(line) == LStrip(SubSeq(line, WordLen(line) + 2, Len(line)))

\* ^(\s*)-\s*(.*)$ of parse_yaml_simple
SimpleListMatches(line) == LET r == LStrip(line) IN r # <<>> /\ Head(r) = "-"

\* ^(\s+)-\s*(.*)$ of parse_yaml_frontmatter
FrontListMatches(line) ==
    LET r == LStrip(line) IN r # <<>> /\ Head(r) = "-" /\ Len(r) < Len(line)

\* group 2 of either list-item pattern
ListValue(line) == LStrip(Tail(LStrip(line)))

\* ^(\s+)(\w+):\s*(.*)$
PropMatches(line) ==
    LET r == LStrip(line) IN Len(r) < Len(line) /\ KvMatches(r)
PropKey(line) == KvKey(LStrip(line))
PropValue(line) == KvValue(LStrip(line))

\* value.startswith('[') and value.endswith(']')
IsInlineArray(value) == value # <<>> /\ Head(value) = "[" /\ value[Len(value)] = "]"

\* [item.strip().strip('"\'') for item in value[1:-1].split(',') if item.strip()]
InlineArray(value) ==
    LET items == Split(SubSeq(value, 2, Len(value) - 1), <<",">>[1])
        kept == SelectSeq(items, LAMBDA item : Strip(item) # <<>>)
    IN  List([i \in 1..Len(kept) |-> Str(StripQuotes(Strip(kept[i])))])

\* str.strip() of a whole text, then split('\n'): the leading and trailing
\* blank lines go, the first line left loses its leading whitespace and the
\* last its trailing whitespace; the empty text splits into one empty line
RECURSIVE DropBlankHead(_)
DropBlankHead(lines) ==
    IF lines # <<>> /\ Strip(Head(lines)) = <<>> THEN DropBlankHead(Tail(lines))
    ELSE lines
RECURSIVE DropBlankTail(_)
DropBlankTail(lines) ==
    IF lines # <<>> /\ Strip(lines[Len(lines)]) = <<>>
    THEN DropBlankTail(SubSeq(lines, 1, Len(lines) - 1))
    ELSE lines
StripText(lines) ==
    LET kept == DropBlankTail(DropBlankHead(lines))
    IN  IF kept = <<>> THEN << <<>> >>
        ELSE LET first == [kept EXCEPT ![1] = LStrip(@)]
             IN  [first EXCEPT ![Len(first)] = RStrip(@)]

\* ---- parse_yaml_simple ----
SimpleStart == [result |-> <<>>, current_key |-> None, current_list |-> <<>>,
                in_list |-> FALSE]

\* the flush that drops the open list although a new key line was read
SimpleFlushKeepsOpen(st) ==
    IF st.in_list /\ st.current_key # None
    THEN [st EXCEPT !.result = DictSet(@, st.current_key, List(st.current_list))]
    ELSE st

\* "save the previous list" at a key line
SimpleFlush(st) ==
    IF st.in_list /\ st.current_key # None
    THEN [st EXCEPT !.result = DictSet(@, st.current_key, List(st.current_list)),
                    !.current_list = <<>>,
                    !.in_list = FALSE]
    ELSE st

\* one turn of the loop over the lines
SimpleLine(st, raw) ==
    LET line == RStrip(raw)
    IN  IF line = <<>> THEN st
        ELSE IF SimpleListMatches(line) THEN
            IF st.in_list /\ st.current_key # None
            THEN [st EXCEPT !.current_list =
                     Append(@, Str(StripQuotes(Strip(ListValue(line)))))]
            ELSE st
        ELSE IF KvMatches(line) THEN
            LET flushed == SimpleFlush(st)
                key == KvKey(line)
                value == Strip(KvValue(line))
            IN  IF value = <<>> \/ value = <<"[", "]">>
                THEN [flushed EXCEPT !.in_list = TRUE,
                                     !.current_key = key,
                                     !.current_list = <<>>]
                ELSE IF IsInlineArray(value)
                THEN [flushed EXCEPT !.result = DictSet(@, key, InlineArray(value))]
                ELSE [flushed EXCEPT !.result = DictSet(@, key, Str(StripQuotes(value))),
                                     !.current_key = key]
        ELSE st

RECURSIVE SimpleLoop(_, _)
SimpleLoop(st, lines) ==
    IF lines = <<>> THEN st ELSE SimpleLoop(SimpleLine(st, Head(lines)), Tail(lines))

parse_yaml_simple(yaml_text) ==
    LET st == SimpleLoop(SimpleStart, StripText(yaml_text))
    IN  IF st.in_list /\ st.current_key # None
        THEN DictSet(st.result, st.current_key, List(st.current_list))
        ELSE st.result

\* ---- parse_yaml_frontmatter ----
\* current_list is None (open = FALSE) or the list object stored under
\* result[current_key] (open = TRUE)
FrontStart == [result |-> <<>>, current_key |-> None, open |-> FALSE]

\* current_list.append(item)
FrontAppend(st, item) ==
    [st EXCEPT !.result =
        DictSet(@, st.current_key,
                List(Append(DictGet(st.result, st.current_key).items, item)))]

\* value.strip().startswith("name:")
IsObjectItem(value) == StartsWith(value, <<"n", "a", "m", "e", ":">>)

\* the object begun by a `- name: X` item, its name not recorded
NewObjectUnnamed(value) == Obj(<<>>)

\* the object begun by a `- name: X` item: name:\s*(.+) on the stripped payload
NewObject(value) ==
    LET rest == LStrip(SubSeq(value, 6, Len(value)))
    IN  IF rest = <<>> THEN Obj(<<>>)
        ELSE Obj(<<[k |-> <<"n", "a", "m", "e">>, v |-> Str(Strip(rest))]>>)

\* current_list[-1][key] = value
FrontSetProp(st, key, value) ==
    LET items == DictGet(st.result, st.current_key).items
        last == items[Len(items)]
    IN  [st EXCEPT !.result =
            DictSet(@, st.current_key,
                    List([items EXCEPT ![Len(items)] =
                            Obj(DictSet(last.items, key, value))]))]

\* one turn of the loop over the lines
FrontLine(st, line) ==
    LET items == IF st.open THEN DictGet(st.result, st.current_key).items ELSE <<>>
    IN  IF Strip(line) = <<>> THEN st
        ELSE IF FrontListMatches(line) /\ st.open THEN
            LET value == Strip(ListValue(line))
            IN  IF value = <<>> THEN st
                ELSE IF IsObjectItem(value) THEN FrontAppend(st, NewObject(value))
                ELSE FrontAppend(st, Str(StripQuotes(value)))
        ELSE IF /\ PropMatches(line) /\ st.open /\ items # <<>>
                /\ items[Len(items)].t = "obj" THEN
            LET value == Strip(PropValue(line))
            IN  IF IsInlineArray(value)
                THEN FrontSetProp(st, PropKey(line), InlineArray(value))
                ELSE FrontSetProp(st, PropKey(line), Str(StripQuotes(value)))
        ELSE IF KvMatches(line) THEN
            LET key == KvKey(line)
                value == Strip(KvValue(line))
            IN  IF value = <<"[", "]">> \/ value = <<>>
                THEN [result |-> DictSet(st.result, key, List(<<>>)),
                      current_key |-> key, open |-> TRUE]
                ELSE IF IsInlineArray(value)
                THEN [result |-> DictSet(st.result, key, InlineArray(value)),
                      current_key |-> key, open |-> FALSE]
                ELSE [result |-> DictSet(st.result, key, Str(StripQuotes(value))),
                      current_key |-> key, open |-> FALSE]
        ELSE st

RECURSIVE FrontLoop(_, _)
FrontLoop(st, lines) ==
    IF lines = <<>> THEN st ELSE FrontLoop(FrontLine(st, Head(lines)), Tail(lines))

Dashes == <<"-", "-", "-">>

\* the position of the first "---" in a line (0: none)
FindDashes(line) ==
    LET at == {i \in 1..(Len(line) - 2) : SubSeq(line, i, i + 2) = Dashes}
    IN  IF at = {} THEN 0 ELSE CHOOSE i \in at : \A j \in at : i <= j

\* content[3:content.index("---", 3)], as lines; NoText when index raises
NoText == << <<"None">> >>
RECURSIVE UpToDashes(_)
UpToDashes(lines) ==
    IF lines = <<>> THEN NoText
    ELSE LET p == FindDashes(Head(lines))
         IN  IF p > 0 THEN <<SubSeq(Head(lines), 1, p - 1)>>
             ELSE LET rest == UpToDashes(Tail(lines))
                  IN  IF rest = NoText THEN NoText ELSE <<Head(lines)>> \o rest

\* the None returned for a content without frontmatter
NoDict == <<[k |-> None, v |-> Str(None)]>>

parse_yaml_frontmatter(content_lines) ==
    IF content_lines = <<>> \/ ~StartsWith(Head(content_lines), Dashes) THEN NoDict
    ELSE LET body == UpToDashes(<<SubSeq(Head(content_lines), 4, Len(Head(content_lines)))>>
                                    \o Tail(content_lines))
         IN  IF body = NoText THEN NoDict
             ELSE FrontLoop(FrontStart, StripText(body)).result

(***************************************************************************)
(* Core Modules table rewriter, sync_skill.py.  Documents are sequences of *)
(* one-character strings.                                                  *)
(***************************************************************************)
\* the header row  | Module | Description | Doc |
TableHeader ==
    <<"|", " ", "M", "o", "d", "u", "l", "e", " ", "|", " ", "D", "e", "s",
      "c", "r", "i", "p", "t", "i", "o", "n", " ", "|", " ", "D", "o", "c",
      " ", "|">>

\* group 3 of the pattern: \n\*Run
RunSentinel == <<NL, "*", "R", "u", "n">>

\* the two characters of the link text of a row
LinkText == <<"U+8BE6", "U+60C5">>

\* d has the text lit at position i
HasAt(d, i, lit) == i + Len(lit) - 1 <= Len(d) /\ SubSeq(d, i, i + Len(lit) - 1) = lit

\* the first position from i on that is past the end of d or holds a
\* character for which `stops` is true of its position
FirstStop(d, i, stops) ==
    CHOOSE j \in i..(Len(d) + 1) :
        /\ j = Len(d) + 1 \/ j \in stops
        /\ \A m \in i..(j - 1) : m \notin stops

\* the length of the greedy \s* at position i
SpaceRun(d, i) ==
    IF i > Len(d) THEN 0
    ELSE FirstStop(d, i, {j \in i..Len(d) : ~IsSpace(d[j])}) - i

\* the length of the greedy [-\s|]+ at position i
SepRun(d, i) ==
    IF i > Len(d) THEN 0
    ELSE FirstStop(d, i, {j \in i..Len(d) : ~(d[j] \in {"-", "|"} \/ IsSpace(d[j]))}) - i

\* the length of the greedy [^\n]+ at position i
LineRun(d, i) ==
    IF i > Len(d) THEN 0
    ELSE FirstStop(d, i, {j \in i..Len(d) : d[j] = NL}) - i

\* the pair of a non-empty set of pairs that a greedy match tries first: the
\* largest first component, then the largest second component
FirstTry(tries) ==
    CHOOSE t \in tries :
        \A u \in tries : u[1] < t[1] \/ (u[1] = t[1] /\ u[2] <= t[2])

\* (?:\|[^\n]+\|\s*)* followed by (\n\*Run), from position i: the position
\* where group 3 starts in the first match the backtracking finds, 0 when
\* there is none.  One more row is tried before no more rows; in a row the
\* closing | is tried from the right, then the \s* from the longest.
RECURSIVE RowsFrom(_, _)
RowsFrom(d, i) ==
    LET closes == IF i <= Len(d) /\ d[i] = "|"
                  THEN {q \in (i + 2)..(i + LineRun(d, i + 1)) : d[q] = "|"}
                  ELSE {}
        tries == {t \in UNION {{<<q, k>> : k \in 0..SpaceRun(d, q + 1)} : q \in closes} :
                      RowsFrom(d, t[1] + 1 + t[2]) # 0}
    IN  IF tries # {}
        THEN LET t == FirstTry(tries) IN RowsFrom(d, t[1] + 1 + t[2])
        ELSE IF HasAt(d, i, RunSentinel) THEN i ELSE 0

NoTable == [s |-> 0, g1 |-> 0, rows |-> 0, g3 |-> 0]

\* the match of table_pattern that starts at position p: s the start, g1 the
\* last position of group 1 (the closing | of the separator row), rows the
\* start of group 2 and g3 the start of group 3; NoTable when there is none
TableMatchAt(d, p) ==
    IF ~HasAt(d, p, TableHeader) THEN NoTable
    ELSE LET sep == p + Len(TableHeader) + SpaceRun(d, p + Len(TableHeader))
             closes == IF sep <= Len(d) /\ d[sep] = "|"
                       THEN {c \in (sep + 2)..(sep + SepRun(d, sep + 1)) : d[c] = "|"}
                       ELSE {}
             tries == {t \in UNION {{<<c, k>> : k \in 0..SpaceRun(d, c + 1)} :
                                       c \in closes} :
                           RowsFrom(d, t[1] + 1 + t[2]) # 0}
         IN  IF tries = {} THEN NoTable
             ELSE LET t == FirstTry(tries)
                  IN  [s |-> p, g1 |-> t[1], rows |-> t[1] + 1 + t[2],
                       g3 |-> RowsFrom(d, t[1] + 1 + t[2])]

\* Pattern.search from position `from`: the leftmost match
TableSearch(d, from) ==
    LET starts == {p \in from..Len(d) : TableMatchAt(d, p) # NoTable}
    IN  IF starts = {} THEN NoTable
        ELSE TableMatchAt(d, CHOOSE p \in starts : \A q \in starts : p <= q)

\* the groups of a match
TableGroupsOf(d, m) ==
    <<SubSeq(d, m.s, m.g1), SubSeq(d, m.rows, m.g3 - 1), RunSentinel>>

\* the number written by a digit
DigitValue(c) ==
    CHOOSE n \in 0..9 : <<"0", "1", "2", "3", "4", "5", "6", "7", "8", "9">>[n + 1] = c

\* re's parse_template and expansion of the replacement `t` from position i
\* for a pattern with the groups `groups`: the expanded text, or ReError when
\* the template is rejected.
RECURSIVE ExpandTemplateGroups(_, _, _)
ExpandTemplateGroups(t, from, groups) ==
    LET escapes == {j \in from..Len(t) : t[j] = BS}
    IN  IF escapes = {} THEN SubSeq(t, from, Len(t))
        ELSE
        LET i == CHOOSE j \in escapes : \A m \in escapes : j <= m
            then(k, lit) ==
                LET rest == ExpandTemplateGroups(t, k, groups)
                IN  IF rest = ReError THEN ReError
                    ELSE SubSeq(t, from, i - 1) \o lit \o rest
        IN  IF i = Len(t) THEN ReError                   \* bad escape (end of pattern)
            ELSE
            LET c == t[i + 1]
                n1 == IF i + 2 <= Len(t) THEN t[i + 2] ELSE ""
                n2 == IF i + 3 <= Len(t) THEN t[i + 3] ELSE ""
            IN  IF c = "g" THEN ReError                  \* \g needs <name>: not in the model's texts
                ELSE IF c = "0" THEN
                    IF n1 \in OctDigits
                    THEN IF n2 \in OctDigits
                         THEN then(i + 4, <<Chr(c, n1, n2)>>)
                         ELSE then(i + 3, <<Chr("0", c, n1)>>)
                    ELSE then(i + 2, <<Chr("0", "0", c)>>)
                ELSE IF c \in Digits THEN
                    IF n1 \in Digits
                    THEN IF c \in OctDigits /\ n1 \in OctDigits /\ n2 \in OctDigits
                         THEN IF c \in {"4", "5", "6", "7"}
                              THEN ReError               \* octal escape value outside of range
                              ELSE then(i + 4, <<Chr(c, n1, n2)>>)
                         ELSE ReError                    \* invalid group reference (two digits)
                    ELSE IF 1 <= DigitValue(c) /\ DigitValue(c) <= Len(groups)
                         THEN then(i + 2, groups[DigitValue(c)])
                         ELSE ReError                    \* invalid group reference
                ELSE IF c = BS THEN then(i + 2, <<BS>>)
                ELSE IF c = "n" THEN then(i + 2, <<NL>>)
                ELSE IF c \in ControlEscapes THEN then(i + 2, <<Ctl(c)>>)
                ELSE IF c \in AsciiLetters THEN ReError \* bad escape
                ELSE then(i + 2, <<BS, c>>)

NameKey == <<"n", "a", "m", "e">>
DescriptionKey == <<"d", "e", "s", "c", "r", "i", "p", "t", "i", "o", "n">>
FileKey == <<"f", "i", "l", "e">>

\* '\n'.join(lines)
RECURSIVE JoinLines(_)
JoinLines(lines) ==
    IF lines = <<>> THEN <<>>
    ELSE IF Len(lines) = 1 THEN Head(lines)
    ELSE Head(lines) \o <<NL>> \o JoinLines(Tail(lines))

\* ', '.join(repr(s) for s in items) of a list of strings
RECURSIVE ReprItems(_)
ReprItems(items) ==
    IF items = <<>> THEN <<>>
    ELSE IF Len(items) = 1 THEN <<"'">> \o Head(items).s \o <<"'">>
    ELSE <<"'">> \o Head(items).s \o <<"'", ",", " ">> \o ReprItems(Tail(items))

\* a value of a dict written by an f-string: a string as it is, a list of
\* strings as its repr ['a', 'b']
Format(v) ==
    IF v.t = "str" THEN v.s ELSE <<"[">> \o ReprItems(v.items) \o <<"]">>

\* m.get(key, default), written by an f-string
GetOr(m, key, default) == IF DictHas(m, key) THEN Format(DictGet(m, key)) ELSE default

\* a module dict as scan_references builds it
Module(name, file) ==
    <<[k |-> NameKey, v |-> Str(name)], [k |-> FileKey, v |-> Str(file)]>>
Described(m, description) == DictSet(m, DescriptionKey, Str(description))


\* f"| {name} | {desc} | [..](references/{file}) |"
TableRow(m) ==
    <<"|", " ">> \o DictGet(m, NameKey).s \o <<" ", "|", " ">>
        \o GetOr(m, DescriptionKey, <<>>) \o <<" ", "|", " ", "[">> \o LinkText
        \o <<"]", "(", "r", "e", "f", "e", "r", "e", "n", "c", "e", "s", "/">>
        \o DictGet(m, FileKey).s \o <<")", " ", "|">>

\* '\n'.join(table_rows) + '\n' if table_rows else ''
RECURSIVE NewRows(_)
NewRows(ms) ==
    IF ms = <<>> THEN <<>> ELSE TableRow(Head(ms)) \o <<NL>> \o NewRows(Tail(ms))

\* Pattern.sub over the rest of the document from position `from`: every
\* match is replaced by the expansion of the replacement for its groups
RECURSIVE TableSubFrom(_, _, _)
TableSubFrom(d, replacement, from) ==
    LET m == TableSearch(d, from)
    IN  IF m = NoTable THEN SubSeq(d, from, Len(d))
        ELSE SubSeq(d, from, m.s - 1)
                 \o ExpandTemplateGroups(replacement, 1, TableGroupsOf(d, m))
                 \o TableSubFrom(d, replacement, m.g3 + Len(RunSentinel))

\* update_core_modules_table: the replacement is built from groups 1 and 3
\* of the first match and handed to Pattern.sub as a template
update_core_modules_table(d, ms) ==
    LET match == TableSearch(d, 1)
        groups == TableGroupsOf(d, match)
        replacement == groups[1] \o <<NL>> \o NewRows(ms) \o groups[3]
    IN  IF match = NoTable THEN d
        ELSE IF ExpandTemplateGroups(replacement, 1, groups) = ReError THEN ReError
        ELSE TableSubFrom(d, replacement, 1)

(***************************************************************************)
(* The calls made on the region rewriter.                                  *)
(***************************************************************************)
Region == "A"
Other == "B"

DocChars == {StartMarker(Region), EndMarker(Region),
             StartMarker(Other), EndMarker(Other), SP, "x", BS}

RECURSIVE SeqsUpTo(_, _)
SeqsUpTo(S, n) ==
    IF n = 0 THEN {<<>>}
    ELSE LET shorter == SeqsUpTo(S, n - 1)
         IN  shorter \cup {Append(s, c) : s \in shorter, c \in S}

Docs == SeqsUpTo(DocChars, MaxDocLen)

\* the new_content arguments tried
Contents ==
    { <<>>, <<"x">>, <<SP, "x", SP>>,
      <<BS, "1">>, <<BS, "2">>, <<BS, "3">>, <<BS, "x">>, <<BS, "n">>, <<BS, BS>>,
      <<EndMarker(Region)>> }

YamlIdle == text = <<>> /\ parsed = <<>> /\ yop = "idle"

ScriptIdle ==
    /\ modules = <<>> /\ files = <<>> /\ found = <<>>
    /\ args = <<>> /\ result = <<>> /\ call = 0

InitRegion ==
    /\ doc \in Docs
    /\ content = <<>>
    /\ out = None
    /\ out2 = None
    /\ op = "start"
    /\ YamlIdle
    /\ ScriptIdle

\* read_region(doc, Region)
Read ==
    /\ op = "start"
    /\ out' = read_region(doc, Region)
    /\ op' = "read"
    /\ UNCHANGED <<doc, content, out2>>
    /\ UNCHANGED yamlVars
    /\ UNCHANGED scriptVars

\* write_region(doc, Region, read_region(doc, Region)), when a region was read
WriteBack ==
    /\ op = "read"
    /\ out # None
    /\ out2' = write_region(doc, Region, out)
    /\ op' = "roundtrip"
    /\ UNCHANGED <<doc, content, out>>
    /\ UNCHANGED yamlVars
    /\ UNCHANGED scriptVars

\* write_region(doc, Region, c)
Write ==
    /\ op = "start"
    /\ \E c \in Contents :
        /\ content' = c
        /\ out' = write_region(doc, Region, c)
    /\ op' = "write"
    /\ UNCHANGED <<doc, out2>>
    /\ UNCHANGED yamlVars
    /\ UNCHANGED scriptVars

\* write_region(write_region(doc, Region, c), Region, c)
WriteAgain ==
    /\ op = "write"
    /\ out # ReError
    /\ out2' = write_region(out, Region, content)
    /\ op' = "rewrite"
    /\ UNCHANGED <<doc, content, out>>
    /\ UNCHANGED yamlVars
    /\ UNCHANGED scriptVars

\* read_region(write_region(doc, Region, c), Region)
ReadBack ==
    /\ op = "write"
    /\ out # ReError
    /\ out2' = read_region(out, Region)
    /\ op' = "readback"
    /\ UNCHANGED <<doc, content, out>>
    /\ UNCHANGED yamlVars
    /\ UNCHANGED scriptVars

NextRegion == Read \/ WriteBack \/ Write \/ WriteAgain \/ ReadBack

SpecRegion == InitRegion /\ [][NextRegion]_vars

(***************************************************************************)
(* The calls made on the readers.                                          *)
(***************************************************************************)
\* k: "v"             a top-level scalar, quoted
LScalar == <<"k", ":", " ", "\"", "v", "\"">>
\* m: [a, 'b',,c ]    a top-level inline array
LInline == <<"m", ":", " ", "[", "a", ",", " ", "'", "b", "'", ",", ",", "c", " ", "]">>
\* items:             a key with no value: opens a list
LItems == <<"i", "t", "e", "m", "s", ":">>
\* M: []              a key with the value []: opens a list
LEmpty == <<"M", ":", " ", "[", "]">>
\*   - a              an indented bare list item
LItemA == <<" ", " ", "-", " ", "a">>
\* - "b"              a list item at column 0, quoted
LItemB == <<"-", " ", "\"", "b", "\"">>
\*   - name: foo      a list item that begins an object
LObjFoo == <<" ", " ", "-", " ", "n", "a", "m", "e", ":", " ", "f", "o", "o">>
\*     tags: [x, y]   an indented property line
LTags ==
    <<" ", " ", " ", " ", "t", "a", "g", "s",
      ":", " ", "[", "x", ",", " ", "y", "]">>
\*   - name: bar      a second object item
LObjBar == <<" ", " ", "-", " ", "n", "a", "m", "e", ":", " ", "b", "a", "r">>
\* ??? garbage        a line of no recognised shape
LGarbage == <<"?", "?", "?", " ", "g", "a", "r", "b", "a", "g", "e">>
\* : no key           a line of no recognised shape
LNoKey == <<":", " ", "n", "o", " ", "k", "e", "y">>
\* two spaces: a blank line
LBlank == <<" ", " ">>

LinePool == {LScalar, LInline, LItems, LEmpty, LItemA, LItemB, LObjFoo, LTags,
             LObjBar, LGarbage, LNoKey, LBlank}

Texts == SeqsUpTo(LinePool, MaxLines)

RegionIdle ==
    doc = <<>> /\ content = <<>> /\ out = None /\ out2 = None /\ op = "idle"

InitYaml ==
    /\ text \in Texts
    /\ parsed = <<>>
    /\ yop = "start"
    /\ RegionIdle
    /\ ScriptIdle

\* parse_yaml_simple(text)
ParseSimple ==
    /\ yop = "start"
    /\ parsed' = parse_yaml_simple(text)
    /\ yop' = "simple"
    /\ UNCHANGED text
    /\ UNCHANGED regionVars
    /\ UNCHANGED scriptVars

\* parse_yaml_frontmatter of a content whose frontmatter is the text
ParseFrontmatter ==
    /\ yop = "start"
    /\ parsed' = parse_yaml_frontmatter(<<Dashes>> \o text \o <<Dashes>>)
    /\ yop' = "frontmatter"
    /\ UNCHANGED text
    /\ UNCHANGED regionVars
    /\ UNCHANGED scriptVars

NextYaml == ParseSimple \/ ParseFrontmatter

SpecYaml == InitYaml /\ [][NextYaml]_vars

\* the reader that produced `parsed`, applied to another text
Reparse(lines) ==
    IF yop = "simple" THEN parse_yaml_simple(lines)
    ELSE parse_yaml_frontmatter(<<Dashes>> \o lines \o <<Dashes>>)

(***************************************************************************)
(* The readers on lists and quoted scalars: texts of key lines and bare    *)
(* list items, and one-line texts  k: <value>  for every value made of     *)
(* quote characters and a letter.                                          *)
(***************************************************************************)
MaxValueLen == 3

\* a:                 key a, no value: opens a list
RA == <<"a", ":">>
\* b: []              key b, the value []: opens a list
RB == <<"b", ":", " ", "[", "]">>
\* a: x               key a, a scalar
RAx == <<"a", ":", " ", "x">>
\* b: [y]             key b, an inline array
RBy == <<"b", ":", " ", "[", "y", "]">>
\* c: "z"             key c, a quoted scalar
RC == <<"c", ":", " ", "\"", "z", "\"">>
\*   - p              an indented bare item
RP == <<" ", " ", "-", " ", "p">>
\* - q                a bare item at column 0
RQ == <<"-", " ", "q">>
\*   -                an indented item with no payload
RDash == <<" ", " ", "-">>

ReaderPool == {RA, RB, RAx, RBy, RC, RP, RQ, RDash}

\* k: <value>
KLine(value) == <<"k", ":", " ">> \o value

QuoteValues == SeqsUpTo({"\"", "'", "v"}, MaxValueLen) \ {<<>>}

ReaderTexts ==
    SeqsUpTo(ReaderPool, MaxLines) \cup {<<KLine(value)>> : value \in QuoteValues}

InitReader ==
    /\ text \in ReaderTexts
    /\ parsed = <<>>
    /\ yop = "start"
    /\ RegionIdle
    /\ ScriptIdle

SpecReader == InitReader /\ [][NextYaml]_vars

(***************************************************************************)
(* The calls made on the table rewriter.                                   *)
(***************************************************************************)
MaxTableLines == 4

\* |-|-|-|            a separator row
TSep == <<"|", "-", "|", "-", "|", "-", "|">>
\* | o |              a row written by hand or by an earlier run
TRow == <<"|", " ", "o", " ", "|">>
\* | - |              a placeholder row of dashes
TDash == <<"|", " ", "-", " ", "|">>
\* *Run               the line after the table
TRun == <<"*", "R", "u", "n">>
\* x                  a line of prose
TProse == <<"x">>
\* an empty line
TBlank == <<>>

TablePool == {TableHeader, TSep, TRow, TDash, TRun, TProse, TBlank}

TableDocs == {JoinLines(ls) : ls \in SeqsUpTo(TablePool, MaxTableLines)}

ModA == Described(Module(<<"a">>, <<"a", ".", "m", "d">>), <<"d">>)
ModB == Module(<<"b">>, <<"b", ".", "m", "d">>)
\* descriptions with a backslash: \d and \\
ModEscape == Described(Module(<<"a">>, <<"a", ".", "m", "d">>), <<BS, "d">>)
ModBackslashes == Described(Module(<<"a">>, <<"a", ".", "m", "d">>), <<BS, BS>>)

ModuleLists == {<<>>, <<ModA>>, <<ModA, ModB>>, <<ModEscape>>, <<ModBackslashes>>}

InitTable ==
    /\ doc \in TableDocs
    /\ content = <<>>
    /\ out = None
    /\ out2 = None
    /\ op = "start"
    /\ YamlIdle
    /\ ScriptIdle

\* update_core_modules_table(doc, ms)
UpdateTable ==
    /\ op = "start"
    /\ \E ms \in ModuleLists :
        /\ modules' = ms
        /\ out' = update_core_modules_table(doc, ms)
    /\ op' = "table"
    /\ UNCHANGED <<doc, content, out2>>
    /\ UNCHANGED yamlVars
    /\ UNCHANGED <<files, found, args, result, call>>

\* update_core_modules_table(update_core_modules_table(doc, ms), ms)
UpdateTableAgain ==
    /\ op = "table"
    /\ out # ReError
    /\ out2' = update_core_modules_table(out, modules)
    /\ op' = "table2"
    /\ UNCHANGED <<doc, content, out>>
    /\ UNCHANGED yamlVars
    /\ UNCHANGED scriptVars

NextTable == UpdateTable \/ UpdateTableAgain

SpecTable == InitTable /\ [][NextTable]_vars

(***************************************************************************)
(* sync_skill, sync_skill.py.  The file system is a function from paths to  *)
(* file contents; SKILL.md and the files of references/ are documents in   *)
(* which the region markers are single characters.                         *)
(***************************************************************************)
\* a path that does not exist, and a path that is a directory
Absent == <<"absent">>
Directory == <<"directory">>

SkillPath == "SKILL.md"
ReferencesDir == "references"
ModulePath == "references/module_a.md"
OtherPath == "references/overview.md"
DashedModulePath == "references/module_a-b.md"
UpperPath == "references/Z.md"
ModulesPath == "references/modules.md"
NotesPath == "references/notes.txt"

\* the entries that references/ may hold
ReferencePaths ==
    {ModulePath, OtherPath, DashedModulePath, UpperPath, ModulesPath, NotesPath}

\* file_path.name
FileName(p) ==
    CASE p = ModulePath -> <<"m", "o", "d", "u", "l", "e", "_", "a", ".", "m", "d">>
      [] p = OtherPath -> <<"o", "v", "e", "r", "v", "i", "e", "w", ".", "m", "d">>
      [] p = DashedModulePath -> <<"m", "o", "d", "u", "l", "e", "_", "a", "-", "b", ".", "m", "d">>
      [] p = UpperPath -> <<"Z", ".", "m", "d">>
      [] p = ModulesPath -> <<"m", "o", "d", "u", "l", "e", "s", ".", "m", "d">>
      [] p = NotesPath -> <<"n", "o", "t", "e", "s", ".", "t", "x", "t">>

\* the characters of file names in the order of their code points
CharOrder ==
    <<"-", ".", "0", "1", "2", "3", "4", "5", "6", "7", "8", "9",
      "A", "B", "C", "D", "E", "F", "G", "H", "I", "J", "K", "L", "M",
      "N", "O", "P", "Q", "R", "S", "T", "U", "V", "W", "X", "Y", "Z", "_",
      "a", "b", "c", "d", "e", "f", "g", "h", "i", "j", "k", "l", "m",
      "n", "o", "p", "q", "r", "s", "t", "u", "v", "w", "x", "y", "z">>
Code(c) == CHOOSE i \in 1..Len(CharOrder) : CharOrder[i] = c

\* a < b for two strings
StrLess(a, b) ==
    \E i \in 1..(Len(a) + 1) :
        /\ i <= Len(b)
        /\ \A j \in 1..(i - 1) : a[j] = b[j]
        /\ i > Len(a) \/ Code(a[i]) < Code(b[i])

\* sorted(paths) for paths of one directory: by file name
RECURSIVE SortedPaths(_)
SortedPaths(S) ==
    IF S = {} THEN <<>>
    ELSE LET first == CHOOSE p \in S :
                          \A q \in S \ {p} : StrLess(FileName(p), FileName(q))
         IN  <<first>> \o SortedPaths(S \ {first})

\* str.endswith
EndsWith(s, suffix) ==
    Len(s) >= Len(suffix)
        /\ SubSeq(s, Len(s) - Len(suffix) + 1, Len(s)) = suffix

ModulePrefix == <<"m", "o", "d", "u", "l", "e", "_">>

\* file_path.stem of a file name that ends in .md
Stem(filename) == SubSeq(filename, 1, Len(filename) - 3)

\* references_dir.glob('*.md'), sorted: files and sub-directories alike
GlobMd(fs) ==
    SortedPaths({p \in ReferencePaths \cap DOMAIN fs :
                    fs[p] # Absent /\ EndsWith(FileName(p), <<".", "m", "d">>)})

TitleKey == <<"t", "i", "t", "l", "e">>
CommitKey ==
    <<"l", "a", "s", "t", "_", "t", "r", "a", "c", "k", "e", "d", "_", "c",
      "o", "m", "m", "i", "t">>
UpdatedKey == <<"l", "a", "s", "t", "_", "u", "p", "d", "a", "t", "e", "d">>

\* the backquote character, and the two fences of a yaml block
Backquote == "U+0060"
YamlFence == <<Backquote, Backquote, Backquote, "y", "a", "m", "l">>
Fence == <<Backquote, Backquote, Backquote>>

\* the first position, from the position given, where d has the text lit;
\* 0 if there is none
Find(d, lit, from) ==
    LET at == {i \in from..Len(d) : HasAt(d, i, lit)}
    IN  IF at = {} THEN 0 ELSE CHOOSE i \in at : \A j \in at : i <= j

\* YAML_BLOCK_PATTERN.search(s): group 1 of ```yaml\s*(.*?)\s*``` (DOTALL),
\* the trimmed text between the first ```yaml and the first ``` after it;
\* None when there is no match
YamlBlock(s) ==
    LET p == Find(s, YamlFence, 1)
        f == IF p = 0 THEN 0 ELSE Find(s, Fence, p + Len(YamlFence))
    IN  IF f = 0 THEN None ELSE Strip(SubSeq(s, p + Len(YamlFence), f - 1))

\* parse_module_config(file_path): None when the file cannot be read (a
\* directory) or holds no yaml block in a Config region
parse_module_config(fs, p) ==
    LET region_content == IF fs[p] = Directory THEN None
                          ELSE read_region(fs[p], "Config")
        yaml_text == IF region_content \in {None, <<>>} THEN None
                     ELSE YamlBlock(region_content)
        filename == Stem(FileName(p))
    IN  IF yaml_text = None THEN NoDict
        ELSE DictSet(DictSet(parse_yaml_simple(Split(yaml_text, NL)),
                             NameKey,
                             Str(IF StartsWith(filename, ModulePrefix)
                                 THEN SubSeq(filename, 8, Len(filename))
                                 ELSE filename)),
                     FileKey, Str(FileName(p)))

\* re.search(r'^#\s+(.+)$', content, re.MULTILINE): group 1 of the match
\* that starts with the # at position i, None when there is none
TitleAt(d, i) ==
    LET tries == {k \in 1..SpaceRun(d, i + 1) : LineRun(d, i + 1 + k) >= 1}
    IN  IF tries = {} THEN None
        ELSE LET k == CHOOSE n \in tries : \A m \in tries : m <= n
             IN  SubSeq(d, i + 1 + k, i + k + LineRun(d, i + 1 + k))

\* the title of another file: group 1 of the first match, else the file name
Title(d, filename) ==
    LET at == {i \in 1..Len(d) :
                  /\ d[i] = "#"
                  /\ i = 1 \/ d[i - 1] = NL
                  /\ TitleAt(d, i) # None}
    IN  IF at = {} THEN filename
        ELSE TitleAt(d, CHOOSE i \in at : \A j \in at : i <= j)

\* lines 165-177: the dict of a module file
ModuleEntry(fs, p) ==
    LET config == parse_module_config(fs, p)
        name == SubSeq(Stem(FileName(p)), 8, Len(Stem(FileName(p))))
    IN  IF config # NoDict THEN config
        ELSE Described(Module(name, FileName(p)),
                       name \o <<" ", "m", "o", "d", "u", "l", "e">>)

\* lines 178-191: the dict of another file
OtherEntry(fs, p) ==
    <<[k |-> FileKey, v |-> Str(FileName(p))],
      [k |-> TitleKey,
       v |-> Str(IF fs[p] = Directory THEN FileName(p)
                 ELSE Title(fs[p], FileName(p)))]>>

\* scan_references: the module dicts and the other files of references/
scan_references(fs) ==
    IF fs[ReferencesDir] = Absent THEN [modules |-> <<>>, other_files |-> <<>>]
    ELSE LET IsModule(p) == StartsWith(FileName(p), ModulePrefix)
             module_paths == SelectSeq(GlobMd(fs), IsModule)
             other_paths == SelectSeq(GlobMd(fs), LAMBDA p : ~IsModule(p))
         IN  [modules |->
                  [i \in 1..Len(module_paths) |-> ModuleEntry(fs, module_paths[i])],
              other_files |->
                  [i \in 1..Len(other_paths) |-> OtherEntry(fs, other_paths[i])]]

\* f"- [{file}](references/{file}) - {what}"
ReferenceLine(file, what) ==
    <<"-", " ", "[">> \o file
        \o <<"]", "(", "r", "e", "f", "e", "r", "e", "n", "c", "e", "s", "/">>
        \o file \o <<")", " ", "-", " ">> \o what

generate_references_content(ms, other_files) ==
    JoinLines([i \in 1..Len(other_files) |->
                   ReferenceLine(DictGet(other_files[i], FileKey).s,
                                 DictGet(other_files[i], TitleKey).s)]
              \o [i \in 1..Len(ms) |->
                   ReferenceLine(DictGet(ms[i], FileKey).s,
                                 GetOr(ms[i], DescriptionKey,
                                       DictGet(ms[i], NameKey).s
                                           \o <<" ", "m", "o", "d", "u", "l", "e", " ",
                                                "d", "e", "t", "a", "i", "l", "s">>))])

generate_config_content(commit, date) ==
    YamlFence \o <<NL>> \o CommitKey \o <<":", " ", "\"">> \o commit \o <<"\"", NL>>
        \o UpdatedKey \o <<":", " ", "\"">> \o date \o <<"\"", NL>> \o Fence

\* the commit kept when none is given: old_config.get('last_tracked_commit', '')
\* of the yaml block of the Config region, '' when there is no such block
KeptCommit(d) ==
    LET config_region == read_region(d, "Config")
        yaml_text == IF config_region \in {None, <<>>} THEN None
                     ELSE YamlBlock(config_region)
        old_config == IF yaml_text = None THEN <<>>
                      ELSE parse_yaml_simple(Split(yaml_text, NL))
    IN  IF DictHas(old_config, CommitKey)
        THEN Format(DictGet(old_config, CommitKey)) ELSE <<>>

AllRegions == <<"References", "Config", "Core Modules">>

\* The steps of sync_skill after the scan, last to first.  Each step takes
\* the content left by the step before it as a value (bound by a singleton
\* set, so that it is computed once).

\* lines 313-317: the write and the dict returned; when a rewrite raised
\* re.error nothing is returned and nothing written, and the result has the
\* error "re.error"
SyncWrite(fs, scanned, c3) ==
    IF c3 = ReError
    THEN [files |-> fs,
          result |-> [success |-> FALSE, modules |-> scanned.modules,
                      other_files |-> scanned.other_files,
                      updated_regions |-> <<>>, error |-> "re.error"]]
    ELSE [files |-> [fs EXCEPT ![SkillPath] = c3],
          result |-> [success |-> TRUE, modules |-> scanned.modules,
                      other_files |-> scanned.other_files,
                      updated_regions |-> AllRegions, error |-> ""]]

\* lines 309-311: the Core Modules table
SyncTable(fs, scanned, c2) ==
    CHOOSE run \in
        {SyncWrite(fs, scanned, c3) :
            c3 \in {IF c2 = ReError THEN ReError
                    ELSE update_core_modules_table(c2, scanned.modules)}} : TRUE

\* lines 294-307: the Config region, with `commit or ''`
SyncConfig(fs, scanned, c1, commit, date) ==
    CHOOSE run \in
        {SyncTable(fs, scanned, c2) :
            c2 \in {IF c1 = ReError THEN ReError
                    ELSE write_region(c1, "Config",
                             generate_config_content(
                                 IF commit = None THEN KeptCommit(c1) ELSE commit,
                                 date))}} : TRUE

\* lines 289-292: the References region
SyncReferences(fs, scanned, commit, date) ==
    CHOOSE run \in
        {SyncConfig(fs, scanned, c1, commit, date) :
            c1 \in {write_region(fs[SkillPath], "References",
                        generate_references_content(scanned.modules,
                                                    scanned.other_files))}} : TRUE

\* sync_skill(target_dir, commit) run on the file system fs on the day
\* date: the file system it leaves and the dict it returns
sync_skill(fs, commit, date) ==
    IF fs[SkillPath] = Absent
    THEN [files |-> fs,
          result |-> [success |-> FALSE, modules |-> <<>>, other_files |-> <<>>,
                      updated_regions |-> <<>>, error |-> "SKILL.md not found"]]
    ELSE CHOOSE run \in
             {SyncReferences(fs, scanned, commit, date) :
                 scanned \in {scan_references(fs)}} : TRUE

(***************************************************************************)
(* The calls made on sync_skill: up to MaxSyncs runs on one project, each   *)
(* with or without a commit, each on some day.                             *)
(***************************************************************************)
MaxSyncs == 2

Paths == {SkillPath, ReferencesDir, ModulePath, OtherPath}

\* a region of a document, its content on lines of its own
RegionText(region_name, inner) ==
    <<StartMarker(region_name), NL>> \o inner \o <<NL, EndMarker(region_name), NL>>

Day1 == <<"2026-01-01">>
Day2 == <<"2026-01-02">>
Dates == {Day1, Day2}

CommitA == <<"c", "1">>
CommitB == <<"c", "2">>
CommitBackslashes == <<BS, BS>>

\* the commit argument: None when --commit is not given
Commits == {None, CommitB, CommitBackslashes}

ReferencesSegments == {<<>>, RegionText("References", <<"x">>)}

ConfigSegments ==
    { <<>>,
      RegionText("Config", generate_config_content(CommitA, Day1)),
      RegionText("Config", generate_config_content(CommitBackslashes, Day1)),
      RegionText("Config", YamlFence \o <<NL>> \o UpdatedKey
                               \o <<":", " ", "\"">> \o Day1 \o <<"\"", NL>> \o Fence),
      RegionText("Config", <<"x">>) }

TableSegments == {<<>>, JoinLines(<<TableHeader, TSep, TRow, TRun>>)}

SkillDocs ==
    {<<"#", " ", "S", NL>> \o r \o c \o t :
        r \in ReferencesSegments, c \in ConfigSegments, t \in TableSegments}

\* a module file whose Config region declares the description
ModuleFile(description) ==
    RegionText("Config", YamlFence \o <<NL>> \o DescriptionKey \o <<":", " ">>
                             \o description \o <<NL>> \o Fence)

ModuleFiles ==
    {<<"x">>, ModuleFile(<<"d">>), ModuleFile(<<"[", "p", "]">>),
     ModuleFile(<<BS, "d">>), ModuleFile(<<BS, BS>>)}

OtherFiles == {<<"#", " ", "T", NL, "x">>, <<"x">>}

NoProject == [p \in Paths |-> Absent]

Projects ==
    {[NoProject EXCEPT ![SkillPath] = s] : s \in SkillDocs \cup {Absent}}
    \cup {[p \in Paths |-> CASE p = SkillPath -> s
                             [] p = ReferencesDir -> Directory
                             [] p = ModulePath -> m
                             [] p = OtherPath -> o] :
             s \in SkillDocs \cup {Absent},
             m \in ModuleFiles \cup {Absent},
             o \in OtherFiles \cup {Absent}}

InitSync ==
    /\ files \in Projects
    /\ found = <<>>
    /\ modules = <<>>
    /\ args = <<>>
    /\ result = <<>>
    /\ call = 0
    /\ RegionIdle
    /\ YamlIdle

\* sync_skill(target_dir, commit) on the day `date`
Sync ==
    /\ call < MaxSyncs
    /\ \E commit \in Commits, date \in Dates :
        \E run \in {sync_skill(files, commit, date)} :
            /\ args' = [commit |-> commit, date |-> date]
            /\ found' = files
            /\ files' = run.files
            /\ result' = run.result
            /\ modules' = run.result.modules
    /\ call' = call + 1
    /\ UNCHANGED regionVars
    /\ UNCHANGED yamlVars

NextSync == Sync

SpecSync == InitSync /\ [][NextSync]_vars

(***************************************************************************)
(* copy_templates, init_project.py.  The file system holds the templates   *)
(* directory (src) and the target directory (dst), each a function from    *)
(* the relative path of a file to its content.                             *)
(***************************************************************************)
TemplateNames == {"CLAUDE.md", "a/x.md", "a/y.md"}

\* the orders in which rglob("*") may yield the files of S
Orders(S) ==
    {o \in [1..Cardinality(S) -> S] :
        \A i, j \in 1..Cardinality(S) : o[i] = o[j] => i = j}

NoLists == [created |-> <<>>, updated |-> <<>>, skipped |-> <<>>, error |-> ""]

\* one turn of the loop that leaves an existing destination alone unless
\* force is set
CopyOneSkipping(st, name, force) ==
    IF st.fs.dst[name] # Absent
    THEN IF force
         THEN [fs |-> [st.fs EXCEPT !.dst[name] = st.fs.src[name]],
               result |-> [st.result EXCEPT !.updated = Append(@, name)]]
         ELSE [fs |-> st.fs,
               result |-> [st.result EXCEPT !.skipped = Append(@, name)]]
    ELSE [fs |-> [st.fs EXCEPT !.dst[name] = st.fs.src[name]],
          result |-> [st.result EXCEPT !.created = Append(@, name)]]

\* one turn of the loop, for the file src/name: both branches of `if force`
\* copy the file and list it under updated
CopyOne(st, name, force) ==
    IF st.fs.dst[name] # Absent
    THEN IF force
         THEN [fs |-> [st.fs EXCEPT !.dst[name] = st.fs.src[name]],
               result |-> [st.result EXCEPT !.updated = Append(@, name)]]
         ELSE [fs |-> [st.fs EXCEPT !.dst[name] = st.fs.src[name]],
               result |-> [st.result EXCEPT !.updated = Append(@, name)]]
    ELSE [fs |-> [st.fs EXCEPT !.dst[name] = st.fs.src[name]],
          result |-> [st.result EXCEPT !.created = Append(@, name)]]

RECURSIVE CopyLoop(_, _, _)
CopyLoop(st, order, force) ==
    IF order = <<>> THEN st
    ELSE CHOOSE next \in
             {CopyLoop(one, Tail(order), force) :
                 one \in {CopyOne(st, Head(order), force)}} : TRUE

\* copy_templates(templates_dir, target_dir, force), the files of the
\* templates directory met in the order given: the file system it leaves
\* and the dict it returns, or the FileNotFoundError it raises
copy_templates(fs, force, order) ==
    IF ~fs.templates_dir
    THEN [fs |-> fs, result |-> [NoLists EXCEPT !.error = "FileNotFoundError"]]
    ELSE CopyLoop([fs |-> fs, result |-> NoLists], order, force)

(***************************************************************************)
(* The calls made on copy_templates: up to MaxCopies calls on one pair of  *)
(* directories.                                                            *)
(***************************************************************************)
MaxCopies == 2

Template == <<"template">>
Edited == <<"edited">>

\* the files of a directory of templates
TemplateFiles(fs) == {name \in TemplateNames : fs.src[name] # Absent}

CopyProjects ==
    {[templates_dir |-> FALSE, src |-> [name \in TemplateNames |-> Absent], dst |-> d] :
        d \in [TemplateNames -> {Absent, Edited}]}
    \cup {[templates_dir |-> TRUE, src |-> s, dst |-> d] :
             s \in [TemplateNames -> {Absent, Template}],
             d \in [TemplateNames -> {Absent, Edited, Template}]}

InitCopy ==
    /\ files \in CopyProjects
    /\ found = <<>>
    /\ modules = <<>>
    /\ args = <<>>
    /\ result = <<>>
    /\ call = 0
    /\ RegionIdle
    /\ YamlIdle

\* copy_templates(templates_dir, target_dir, force)
CopyTemplates ==
    /\ call < MaxCopies
    /\ \E force \in BOOLEAN, order \in Orders(TemplateFiles(files)) :
        \E run \in {copy_templates(files, force, order)} :
            /\ args' = [force |-> force]
            /\ found' = files
            /\ files' = run.fs
            /\ result' = run.result
    /\ call' = call + 1
    /\ UNCHANGED modules
    /\ UNCHANGED regionVars
    /\ UNCHANGED yamlVars

NextCopy == CopyTemplates

SpecCopy == InitCopy /\ [][NextCopy]_vars

(***************************************************************************)
(* validate_inkmon, validate_inkmon.py.  The JSON document is a record of  *)
(* what the checks read: has_root and fields are the keys present, stats   *)
(* is [has: the keys present, val: their numbers], a text is a sequence of *)
(* characters, a colour of the palette is [hex: whether it is #RRGGBB],    *)
(* design_prompt is [empty, anchors: the anchors it contains].  An error   *)
(* is [field, message], the message named by its kind and the index of a   *)
(* colour left out of its field.                                           *)
(***************************************************************************)
BST_RANGES ==
    [stage \in {"baby", "mature", "adult"} |->
        CASE stage = "baby" -> <<250, 350>>
          [] stage = "mature" -> <<350, 450>>
          [] stage = "adult" -> <<450, 550>>]

VALID_ELEMENTS ==
    {"fire", "water", "grass", "electric", "ice", "rock", "ground", "flying",
     "bug", "poison", "dark", "light", "steel", "dragon"}

STYLE_ANCHORS ==
    {"low poly", "faceted", "sharp edges", "ink sketch texture",
     "non-reflective surface"}

VALID_DIETS == {"herbivore", "carnivore", "omnivore", "special"}

required_fields ==
    <<"name", "name_en", "dex_number", "description", "elements", "stats",
      "design", "evolution", "ecology", "image_prompts">>

stat_fields == <<"hp", "attack", "defense", "sp_attack", "sp_defense", "speed">>

ValidationError(field, message) == [field |-> field, message |-> message]

\* one error per name of the list, in its order
Errors(names, prefix, message) ==
    [i \in 1..Len(names) |-> ValidationError(prefix \o names[i], message)]

\* stats.get(key, 0)
StatGet(stats, key) == IF key \in stats.has THEN stats.val[key] ELSE 0

\* sum(stats.get(s, 0) for s in stat_fields)
RECURSIVE SumStats(_, _)
SumStats(stats, list) ==
    IF list = <<>> THEN 0 ELSE StatGet(stats, Head(list)) + SumStats(stats, Tail(list))

\* re.match(r'^[A-Za-z]+$', name_en): $ also matches before a last newline
NameEnMatches(name_en) ==
    LET letters == IF name_en # <<>> /\ name_en[Len(name_en)] = NL
                   THEN SubSeq(name_en, 1, Len(name_en) - 1) ELSE name_en
    IN  letters # <<>> /\ \A i \in 1..Len(letters) : letters[i] \in AsciiLetters

\* lines 86-95
NameErrors(inkmon) ==
    (IF ~(2 <= inkmon.name_len /\ inkmon.name_len <= 4)
     THEN <<ValidationError("name", "length")>> ELSE <<>>)
    \o (IF ~NameEnMatches(inkmon.name_en)
        THEN <<ValidationError("name_en", "letters")>> ELSE <<>>)
    \o (IF Len(inkmon.name_en) > 12
        THEN <<ValidationError("name_en", "longest")>> ELSE <<>>)

\* lines 117-146, entered when nothing has been reported so far
BstErrors(inkmon) ==
    LET stats == inkmon.stats
        calculated_bst == SumStats(stats, stat_fields)
        declared_bst == StatGet(stats, "bst")
        range == BST_RANGES[inkmon.stage]
    IN  (IF calculated_bst # declared_bst
         THEN <<ValidationError("stats.bst", "sum")>> ELSE <<>>)
        \o (IF ~(range[1] <= declared_bst /\ declared_bst <= range[2])
            THEN <<ValidationError("stats.bst", "range")>> ELSE <<>>)
        \o Errors(SelectSeq(stat_fields,
                            LAMBDA stat : ~(1 <= StatGet(stats, stat)
                                            /\ StatGet(stats, stat) <= 255)),
                  "stats.", "value")

\* lines 148-212: elements, design, ecology, image_prompts
OtherErrors(inkmon) ==
    (IF inkmon.primary \notin VALID_ELEMENTS
     THEN <<ValidationError("elements.primary", "invalid")>> ELSE <<>>)
    \o (IF inkmon.secondary # "None" /\ inkmon.secondary \notin VALID_ELEMENTS
        THEN <<ValidationError("elements.secondary", "invalid")>> ELSE <<>>)
    \o (IF ~inkmon.base_animal
        THEN <<ValidationError("design.base_animal", "missing")>> ELSE <<>>)
    \o (IF inkmon.features < 1
        THEN <<ValidationError("design.features", "missing")>> ELSE <<>>)
    \o [i \in 1..Len(SelectSeq(inkmon.color_palette, LAMBDA color : ~color.hex)) |->
           ValidationError("design.color_palette", "invalid")]
    \o (IF inkmon.diet \notin VALID_DIETS
        THEN <<ValidationError("ecology.diet", "invalid")>> ELSE <<>>)
    \o (IF inkmon.design_prompt.empty
        THEN <<ValidationError("image_prompts.design", "missing")>>
        ELSE IF STYLE_ANCHORS \ inkmon.design_prompt.anchors # {}
        THEN <<ValidationError("image_prompts.design", "anchors")>>
        ELSE <<>>)

\* validate_inkmon(data): the list of errors
validate_inkmon(data) ==
    IF ~data.has_root THEN <<ValidationError("root", "missing")>>
    ELSE
    LET missing == Errors(SelectSeq(required_fields,
                                    LAMBDA field : field \notin data.fields),
                          "", "missing")
    IN  IF Len(missing) > 0 THEN missing
        ELSE
        LET named == NameErrors(data)
        IN  IF data.stage \notin DOMAIN BST_RANGES
            THEN Append(named, ValidationError("evolution.stage", "invalid"))
            ELSE
            LET present ==
                    named \o Errors(SelectSeq(stat_fields,
                                              LAMBDA stat : stat \notin data.stats.has),
                                    "stats.", "missing")
            IN  present
                    \o (IF Len(present) = 0 THEN BstErrors(data) ELSE <<>>)
                    \o OtherErrors(data)

(***************************************************************************)
(* The calls made on validate_inkmon: one call on one document.            *)
(***************************************************************************)
\* a number that may be missing from stats
Given(n) == [has |-> TRUE, n |-> n]
NotGiven == [has |-> FALSE, n |-> 0]

\* the stats of a document: hp and speed vary, attack is 50 or missing,
\* defense and the two special stats are 50, bst may be missing
StatsOf(hp, attack, speed, bst) ==
    [has |-> {"defense", "sp_attack", "sp_defense", "speed"}
                 \cup (IF hp.has THEN {"hp"} ELSE {})
                 \cup (IF attack THEN {"attack"} ELSE {})
                 \cup (IF bst.has THEN {"bst"} ELSE {}),
     val |-> [key \in {"hp", "attack", "defense", "sp_attack", "sp_defense",
                       "speed", "bst"} |->
                 CASE key = "hp" -> hp.n
                   [] key = "speed" -> speed
                   [] key = "bst" -> bst.n
                   [] OTHER -> 50]]

AllFields == {required_fields[i] : i \in 1..Len(required_fields)}

NamesEn ==
    { <<"M", "o", "s", "s">>, <<"M", "o", "s", "s", NL>>, <<"M", "0">>, <<>>,
      <<"M", "o", "s", "s", "B", "e", "a", "r", "M", "o", "s", "s", "B">> }

\* the other sections of a document, all valid or all invalid
ValidRest ==
    [primary |-> "grass", secondary |-> "None", base_animal |-> TRUE,
     features |-> 1, color_palette |-> <<[hex |-> TRUE]>>, diet |-> "omnivore",
     design_prompt |-> [empty |-> FALSE, anchors |-> STYLE_ANCHORS]]
InvalidRest ==
    [primary |-> "None", secondary |-> "wood", base_animal |-> FALSE,
     features |-> 0, color_palette |-> <<[hex |-> TRUE], [hex |-> FALSE]>>,
     diet |-> "None",
     design_prompt |-> [empty |-> FALSE, anchors |-> {"faceted"}]]
NoPrompt == [ValidRest EXCEPT !.design_prompt = [empty |-> TRUE, anchors |-> {}]]

Document(has_root, fields, name_len, name_en, stage, stats, rest) ==
    [has_root |-> has_root, fields |-> fields, name_len |-> name_len,
     name_en |-> name_en, stage |-> stage, stats |-> stats,
     primary |-> rest.primary, secondary |-> rest.secondary,
     base_animal |-> rest.base_animal, features |-> rest.features,
     color_palette |-> rest.color_palette, diet |-> rest.diet,
     design_prompt |-> rest.design_prompt]

NoRoot ==
    Document(FALSE, AllFields, 2, <<"M", "o", "s", "s">>, "baby",
             StatsOf(Given(50), TRUE, 50, Given(300)), ValidRest)

Documents ==
    {NoRoot} \cup
    {Document(TRUE, fields, name_len, name_en, stage,
              StatsOf(hp, attack, speed, bst), rest) :
        fields \in {AllFields, AllFields \ {"name", "ecology"}},
        name_len \in {1, 2},
        name_en \in NamesEn,
        stage \in {"baby", "mature", "adult", "egg"},
        hp \in {NotGiven} \cup {Given(n) : n \in {0, 1, 50, 255, 256}},
        attack \in BOOLEAN,
        speed \in {50, 150},
        bst \in {NotGiven} \cup {Given(n) : n \in {249, 300, 350, 351, 400, 505, 551}},
        rest \in {ValidRest, InvalidRest, NoPrompt}}

InitInkmon ==
    /\ args \in Documents
    /\ files = <<>>
    /\ found = <<>>
    /\ modules = <<>>
    /\ result = <<>>
    /\ call = 0
    /\ RegionIdle
    /\ YamlIdle

\* validate_inkmon(data)
ValidateInkmon ==
    /\ call = 0
    /\ result' = validate_inkmon(args)
    /\ call' = 1
    /\ UNCHANGED <<modules, files, found, args>>
    /\ UNCHANGED regionVars
    /\ UNCHANGED yamlVars

NextInkmon == ValidateInkmon

SpecInkmon == InitInkmon /\ [][NextInkmon]_vars

(***************************************************************************)
(* create_module, create_module.py.  The file system holds the references  *)
(* directory, the template and the module files, module_<name>.md under    *)
(* the name it was created for; in a text a ${...} variable is a single    *)
(* character.                                                              *)
(***************************************************************************)
LowerAlphabet ==
    <<"a", "b", "c", "d", "e", "f", "g", "h", "i", "j", "k", "l", "m",
      "n", "o", "p", "q", "r", "s", "t", "u", "v", "w", "x", "y", "z">>
UpperAlphabet ==
    <<"A", "B", "C", "D", "E", "F", "G", "H", "I", "J", "K", "L", "M",
      "N", "O", "P", "Q", "R", "S", "T", "U", "V", "W", "X", "Y", "Z">>
LowerLetters == {LowerAlphabet[i] : i \in 1..Len(LowerAlphabet)}

\* str.upper and str.lower of a character
Upper(c) ==
    IF c \in LowerLetters
    THEN UpperAlphabet[CHOOSE i \in 1..Len(LowerAlphabet) : LowerAlphabet[i] = c]
    ELSE c
Lower(c) ==
    IF \E i \in 1..Len(UpperAlphabet) : UpperAlphabet[i] = c
    THEN LowerAlphabet[CHOOSE i \in 1..Len(UpperAlphabet) : UpperAlphabet[i] = c]
    ELSE c

\* str.capitalize
Capitalize(word) ==
    [i \in 1..Len(word) |-> IF i = 1 THEN Upper(word[i]) ELSE Lower(word[i])]

\* ' '.join(words)
RECURSIVE JoinWords(_)
JoinWords(words) ==
    IF words = <<>> THEN <<>>
    ELSE IF Len(words) = 1 THEN Head(words)
    ELSE Head(words) \o <<SP>> \o JoinWords(Tail(words))

kebab_to_title(name) ==
    LET words == Split(name, "-")
    IN  JoinWords([i \in 1..Len(words) |-> Capitalize(words[i])])

\* a name that is [a-z][a-z0-9]*(-[a-z0-9]+)* from its first to its last
\* character
IsKebab(name) ==
    /\ name # <<>>
    /\ name[1] \in LowerLetters
    /\ name[Len(name)] # "-"
    /\ \A i \in 1..Len(name) : name[i] \in LowerLetters \cup Digits \cup {"-"}
    /\ \A i \in 1..(Len(name) - 1) : ~(name[i] = "-" /\ name[i + 1] = "-")

\* re.match(r'^[a-z][a-z0-9]*(-[a-z0-9]+)*$', name): the $ matches at the
\* end of the name and also before a newline that ends it
validate_module_name(name) ==
    \/ IsKebab(name)
    \/ /\ name # <<>>
       /\ name[Len(name)] = NL
       /\ IsKebab(SubSeq(name, 1, Len(name) - 1))

\* str.replace(variable, value), the variable a single character
RECURSIVE Replace(_, _, _)
Replace(s, variable, value) ==
    IF s = <<>> THEN <<>>
    ELSE (IF Head(s) = variable THEN value ELSE <<Head(s)>>)
             \o Replace(Tail(s), variable, value)

\* '\n'.join(f'  - "{p}"' for p in tracked_paths)
PathsYaml(tracked_paths) ==
    JoinLines([i \in 1..Len(tracked_paths) |->
                  <<SP, SP, "-", SP, "\"">> \o tracked_paths[i] \o <<"\"">>])

DefaultPathsYaml ==
    <<SP, SP, "-", SP, "\"", "p", "a", "t", "h", "/", "t", "o", "/",
      "m", "o", "d", "u", "l", "e", "/", "\"">>

\* lines 96-117: the content written for the module
ModuleContent(template_content, module_name, description, tracked_paths, date) ==
    LET module_title == kebab_to_title(module_name)
        paths_yaml == IF tracked_paths # <<>> THEN PathsYaml(tracked_paths)
                      ELSE DefaultPathsYaml
        described == IF description = <<>>
                     THEN module_title \o <<SP, "m", "o", "d", "u", "l", "e">>
                     ELSE description
    IN  Replace(Replace(Replace(Replace(template_content,
                                        "${MODULE_TITLE}", module_title),
                                "${DESCRIPTION}", described),
                        "${TRACKED_PATHS}", paths_yaml),
                "${DATE}", date)

Failure(fs, error) == [fs |-> fs, result |-> [success |-> FALSE, error |-> error]]

\* create_module(target_dir, module_name, description, tracked_paths) on
\* the day date: the file system it leaves and the dict it returns
create_module(fs, module_name, description, tracked_paths, date) ==
    IF ~validate_module_name(module_name) THEN Failure(fs, "name")
    ELSE IF ~fs.references_dir THEN Failure(fs, "references")
    ELSE IF fs.module[module_name] # Absent THEN Failure(fs, "exists")
    ELSE IF fs.template = Absent THEN Failure(fs, "template")
    ELSE [fs |-> [fs EXCEPT !.module[module_name] =
                     ModuleContent(fs.template, module_name, description,
                                   tracked_paths, date)],
          result |-> [success |-> TRUE, error |-> ""]]

(***************************************************************************)
(* The calls made on create_module: up to MaxCreates calls on one project. *)
(***************************************************************************)
MaxCreates == 2

ModuleNames ==
    { <<"a">>, <<"a", "b", "-", "c", "1">>, <<"a", NL>>, <<"A">>, <<"a", "-">>,
      <<"a", "-", "-", "b">>, <<"1", "a">>, <<>> }

ModuleTemplate ==
    <<"#", SP, "${MODULE_TITLE}", NL, "${DESCRIPTION}", NL, "${TRACKED_PATHS}", NL,
      "${DATE}">>

Descriptions == {<<>>, <<"d">>, <<"${DATE}">>}

TrackedPaths == {<<>>, <<<<"s", "r", "c">>, <<"l", "i", "b">>>>}

\* the references directory missing or present, module_a.md present or not
ModuleProjects ==
    {[references_dir |-> r.dir, template |-> t,
      module |-> [name \in ModuleNames |-> IF name = <<"a">> THEN r.a ELSE Absent]] :
        r \in {[dir |-> FALSE, a |-> Absent], [dir |-> TRUE, a |-> Absent],
               [dir |-> TRUE, a |-> Edited]},
        t \in {Absent, ModuleTemplate}}

InitCreate ==
    /\ files \in ModuleProjects
    /\ found = <<>>
    /\ modules = <<>>
    /\ args = <<>>
    /\ result = <<>>
    /\ call = 0
    /\ RegionIdle
    /\ YamlIdle

\* create_module(target_dir, module_name, description, tracked_paths)
CreateModule ==
    /\ call < MaxCreates
    /\ \E module_name \in ModuleNames, description \in Descriptions,
          tracked_paths \in TrackedPaths, date \in Dates :
        \E run \in {create_module(files, module_name, description, tracked_paths, date)} :
            /\ args' = [module_name |-> module_name, description |-> description,
                        tracked_paths |-> tracked_paths, date |-> date]
            /\ found' = files
            /\ files' = run.fs
            /\ result' = run.result
    /\ call' = call + 1
    /\ UNCHANGED modules
    /\ UNCHANGED regionVars
    /\ UNCHANGED yamlVars

NextCreate == CreateModule

SpecCreate == InitCreate /\ [][NextCreate]_vars

(***************************************************************************)
(* Calls of scan_references and generate_references_content on a           *)
(* references directory.                                                   *)
(***************************************************************************)
\* a module file whose Config gives no description
UndescribedModuleFile ==
    RegionText("Config", YamlFence \o <<NL>> \o NameKey \o <<":", " ", "z">>
                             \o <<NL>> \o Fence)

\* what an entry of references/ may be
EntryContents(p) ==
    CASE p = ModulePath ->
             {Absent, Directory, <<"x">>, ModuleFile(<<"d">>), UndescribedModuleFile}
      [] p = DashedModulePath -> {Absent, <<"x">>, ModuleFile(<<"d">>)}
      [] p = OtherPath -> {Absent, Directory, <<"x">>, <<"#", " ", "T", NL, "x">>}
      [] p = UpperPath -> {Absent, <<"x">>}
      [] p = ModulesPath -> {Absent, <<"#", " ", "T", NL, "x">>}
      [] p = NotesPath -> {Absent, <<"x">>}

ReferenceDirs ==
    {[p \in ReferencePaths \cup {ReferencesDir} |-> Absent]}
    \cup {d \in [ReferencePaths \cup {ReferencesDir} ->
                    UNION {EntryContents(p) : p \in ReferencePaths}] :
             /\ d[ReferencesDir] = Directory
             /\ \A p \in ReferencePaths : d[p] \in EntryContents(p)}

InitScan ==
    /\ files \in ReferenceDirs
    /\ found = <<>>
    /\ modules = <<>>
    /\ args = <<>>
    /\ result = <<>>
    /\ call = 0
    /\ RegionIdle
    /\ YamlIdle

\* sync_skill lines 266-276: the scan and the References content made of it
Scan ==
    /\ call = 0
    /\ \E scanned \in {scan_references(files)} :
        /\ modules' = scanned.modules
        /\ result' = [other_files |-> scanned.other_files,
                      content |-> generate_references_content(
                                      scanned.modules, scanned.other_files)]
    /\ found' = files
    /\ call' = 1
    /\ UNCHANGED <<files, args>>
    /\ UNCHANGED regionVars
    /\ UNCHANGED yamlVars

NextScan == Scan

SpecScan == InitScan /\ [][NextScan]_vars

(***************************************************************************)
(* ValidationResult of validate_init.py and the calls made on it.          *)
(***************************************************************************)
\* ValidationResult.__init__
NewValidationResult == [passed |-> 0, failed |-> 0, warnings |-> 0, errors |-> <<>>]

\* ValidationResult.ok
ok(self, msg) == [self EXCEPT !.passed = @ + 1]

\* ValidationResult.fail
fail(self, msg, suggestion) ==
    [self EXCEPT !.failed = @ + 1, !.errors = Append(@, <<msg, suggestion>>)]

\* a warn that counts as a failure
warn_failing(self, msg, suggestion) ==
    [self EXCEPT !.warnings = @ + 1, !.failed = @ + 1]

\* ValidationResult.warn
warn(self, msg, suggestion) == [self EXCEPT !.warnings = @ + 1]

\* ValidationResult.is_success
is_success(self) == self.failed = 0

MaxCalls == 4
Messages == {"m1", "m2"}
Suggestions == {"", "s"}
NotExited == <<>>

InitResult ==
    /\ result = NewValidationResult
    /\ args = <<>>
    /\ found = NotExited
    /\ files = <<>>
    /\ modules = <<>>
    /\ call = 0
    /\ RegionIdle
    /\ YamlIdle

\* a check of main reports success: result.ok(msg)
Ok ==
    /\ call < MaxCalls /\ found = NotExited
    /\ \E msg \in Messages :
        /\ result' = ok(result, msg)
        /\ args' = Append(args, [method |-> "ok", msg |-> msg, suggestion |-> ""])
    /\ call' = call + 1
    /\ UNCHANGED <<files, found, modules>>
    /\ UNCHANGED regionVars
    /\ UNCHANGED yamlVars

\* a check of main reports a failure: result.fail(msg, suggestion)
Fail ==
    /\ call < MaxCalls /\ found = NotExited
    /\ \E msg \in Messages, suggestion \in Suggestions :
        /\ result' = fail(result, msg, suggestion)
        /\ args' = Append(args, [method |-> "fail", msg |-> msg,
                                 suggestion |-> suggestion])
    /\ call' = call + 1
    /\ UNCHANGED <<files, found, modules>>
    /\ UNCHANGED regionVars
    /\ UNCHANGED yamlVars

\* a check of main reports a warning: result.warn(msg, suggestion)
Warn ==
    /\ call < MaxCalls /\ found = NotExited
    /\ \E msg \in Messages, suggestion \in Suggestions :
        /\ result' = warn(result, msg, suggestion)
        /\ args' = Append(args, [method |-> "warn", msg |-> msg,
                                 suggestion |-> suggestion])
    /\ call' = call + 1
    /\ UNCHANGED <<files, found, modules>>
    /\ UNCHANGED regionVars
    /\ UNCHANGED yamlVars

\* main lines 410-427: the totals, the errors listed and the exit code
Exit ==
    /\ found = NotExited
    /\ found' = [total |-> result.passed + result.failed,
                 code |-> IF is_success(result) THEN 0 ELSE 1,
                 listed |-> IF is_success(result) THEN <<>> ELSE result.errors]
    /\ UNCHANGED <<files, modules, args, result, call>>
    /\ UNCHANGED regionVars
    /\ UNCHANGED yamlVars

NextResult == Ok \/ Fail \/ Warn \/ Exit

SpecResult == InitResult /\ [][NextResult]_vars

(***************************************************************************)
(* Properties of the region rewriter.                                      *)
(***************************************************************************)
Range(s) == {s[i] : i \in 1..Len(s)}

Markers == {StartMarker(Region), EndMarker(Region), StartMarker(Other), EndMarker(Other)}

Count(d, ch) == Cardinality({i \in 1..Len(d) : d[i] = ch})

\* the document holds a start marker of the region followed later by its end marker
HasRegion(d, region_name) ==
    \E i, j \in 1..Len(d) :
        i < j /\ d[i] = StartMarker(region_name) /\ d[j] = EndMarker(region_name)

\* each marker of the region occurs once, the start marker first
WellFormed(d, region_name) ==
    /\ HasRegion(d, region_name)
    /\ Count(d, StartMarker(region_name)) = 1
    /\ Count(d, EndMarker(region_name)) = 1

\* the last n characters of s
Last(s, n) == SubSeq(s, Len(s) - n + 1, Len(s))

\* the text between the first start marker of the region and the first end
\* marker after it
Inner(d, region_name) ==
    LET i == CHOOSE k \in 1..Len(d) :
                 /\ d[k] = StartMarker(region_name)
                 /\ \A m \in 1..(k - 1) : d[m] # StartMarker(region_name)
        j == CHOOSE k \in (i + 1)..Len(d) :
                 /\ d[k] = EndMarker(region_name)
                 /\ \A m \in (i + 1)..(k - 1) : d[m] # EndMarker(region_name)
    IN  [s |-> i, e |-> j, text |-> SubSeq(d, i + 1, j - 1)]

\* C1: for a document with a well-formed region, writing back what
\* read_region returned gives the document with the region content trimmed
\* and padded by one newline on each side, and nothing else changed.
C1_RoundTripStable ==
    (op = "roundtrip" /\ WellFormed(doc, Region)) =>
        LET r == Inner(doc, Region)
        IN  out2 = SubSeq(doc, 1, r.s) \o <<NL>> \o Strip(r.text) \o <<NL>>
                       \o SubSeq(doc, r.e, Len(doc))

\* C2: whenever write_region(doc, A, x) returns a document, for a document
\* in which region A is matched once and region B lies wholly before or
\* after it: the text up to and including A's start marker and the text
\* from A's end marker on are the same in the result, and so is region B.
C2_Isolation ==
    (/\ op = "write" /\ out # ReError
     /\ WellFormed(doc, Region) /\ WellFormed(doc, Other)
     /\ LET a == Inner(doc, Region)
            b == Inner(doc, Other)
        IN  b.e < a.s \/ a.e < b.s) =>
        LET a == Inner(doc, Region)
            tail == Len(doc) - a.e + 1
            b == Inner(doc, Other)
            shift == IF b.e < a.s THEN 0 ELSE Len(out) - Len(doc)
        IN  /\ Len(out) >= a.s + tail
            /\ SubSeq(out, 1, a.s) = SubSeq(doc, 1, a.s)
            /\ Last(out, tail) = Last(doc, tail)
            /\ SubSeq(out, b.s + shift, b.e + shift) = SubSeq(doc, b.s, b.e)

\* C2 witness: a write with a backslash escape in the new content returned a
\* document, on a document with text before region A, a region A and a
\* region B after it
C2_Witness ==
    /\ op = "write" /\ out # ReError /\ out # doc
    /\ BS \in Range(content)
    /\ WellFormed(doc, Region) /\ WellFormed(doc, Other)
    /\ Inner(doc, Region).s > 1
    /\ Inner(doc, Region).e < Inner(doc, Other).s

\* C3: when the document lacks the marker pair, read_region returns None
\* and write_region returns the document unchanged, for every new content,
\* without raising.
C3_AbsenceSafe ==
    ~HasRegion(doc, Region) =>
        /\ op = "read" => out = None
        /\ op = "write" => out = doc

\* C4: writing the same content twice gives the same document as writing it
\* once (stated for new content that holds no marker).
C4_DoubleWrite ==
    (op = "rewrite" /\ Range(content) \cap Markers = {}) => out2 = out

\* C5: with two marker pairs of the same name, read_region returns the
\* content of the first pair and write_region leaves the text after the
\* first pair alone: the content of the second pair is what it was
\* (stated for new content that holds no marker and no backslash).
C5_FirstMatchOnly ==
    LET first == RegionSearch(doc, Region, 1)
        twoPairs == /\ first # NoMatch
                    /\ HasRegion(SubSeq(doc, first.e + 1, Len(doc)), Region)
        after == Len(doc) - first.e
    IN  twoPairs =>
            /\ op = "read" => out = Strip(Inner(doc, Region).text)
            /\ (op = "write" /\ Range(content) \cap (Markers \cup {BS}) = {}) =>
                   /\ Len(out) >= after
                   /\ read_region(Last(out, after), Region)
                          = read_region(Last(doc, after), Region)

\* C6: after write_region(doc, name, c) on a document that holds the region,
\* for c without marker text, the text between the two markers is a newline,
\* c verbatim, a newline, and reading the region back gives c trimmed.
C6_WriteThenRead ==
    (HasRegion(doc, Region) /\ Range(content) \cap Markers = {}) =>
        /\ op \in {"write", "rewrite", "readback"} =>
               /\ out # ReError
               /\ Inner(out, Region).text = <<NL>> \o content \o <<NL>>
        /\ op = "readback" => out2 = Strip(content)

(***************************************************************************)
(* Properties of the readers.                                              *)
(***************************************************************************)
Parsed == yop \in {"simple", "frontmatter"}

Name == <<"n", "a", "m", "e">>
Tags == <<"t", "a", "g", "s">>
Foo == <<"f", "o", "o">>
Bar == <<"b", "a", "r">>

\* what the lines of the pool say, read by eye
ScalarValue == Str(<<"v">>)
InlineValue == List(<<Str(<<"a">>), Str(<<"b">>), Str(<<"c">>)>>)
TagsValue == List(<<Str(<<"x">>), Str(<<"y">>)>>)

KeyOf(line) ==
    CASE line = LScalar -> <<"k">>
      [] line = LInline -> <<"m">>
      [] line = LItems -> <<"i", "t", "e", "m", "s">>
      [] line = LEmpty -> <<"M">>

ListKeyLines == {LItems, LEmpty}
ValueKeyLines == {LScalar, LInline}
KeyLines == ListKeyLines \cup ValueKeyLines
IndentedItemLines == {LItemA, LObjFoo, LObjBar}
MalformedLines == {LGarbage, LNoKey}

\* the text without its line i
Without(lines, i) == SubSeq(lines, 1, i - 1) \o SubSeq(lines, i + 1, Len(lines))

\* C7: a top-level line  k: "v"  gives the string v under k, quotes removed,
\* and a top-level line  m: [a, 'b',,c ]  gives the sequence a, b, c under m
\* (split on commas, trimmed, quote-stripped, empty elements dropped), in
\* both readers and wherever the line stands in the text.
C7_ScalarAndInline ==
    Parsed =>
        /\ (\E i \in 1..Len(text) : text[i] = LScalar) =>
               DictHas(parsed, KeyOf(LScalar)) /\ DictGet(parsed, KeyOf(LScalar)) = ScalarValue
        /\ (\E i \in 1..Len(text) : text[i] = LInline) =>
               DictHas(parsed, KeyOf(LInline)) /\ DictGet(parsed, KeyOf(LInline)) = InlineValue

\* C7 witness: the frontmatter reader has read both lines after an open list
C7_Witness ==
    /\ yop = "frontmatter"
    /\ text = <<LItems, LItemA, LScalar, LInline>>
    /\ DictGet(parsed, KeyOf(LInline)) = InlineValue
    /\ DictGet(parsed, KeyOf(LScalar)) = ScalarValue

\* the objects a block of `- name: X` items and property lines stands for:
\* one object per item, in order, each property going to the last object
RECURSIVE ObjectsOf(_, _)
ObjectsOf(lines, acc) ==
    IF lines = <<>> THEN acc
    ELSE LET l == Head(lines)
             next ==
                 IF l = LObjFoo THEN Append(acc, <<[k |-> Name, v |-> Str(Foo)]>>)
                 ELSE IF l = LObjBar THEN Append(acc, <<[k |-> Name, v |-> Str(Bar)]>>)
                 ELSE IF l = LTags /\ acc # <<>>
                 THEN [acc EXCEPT ![Len(acc)] = DictSet(@, Tags, TagsValue)]
                 ELSE acc
         IN  ObjectsOf(Tail(lines), next)

\* the payloads of the `- name: X` items of a block, as plain strings
RECURSIVE PayloadsOf(_)
PayloadsOf(lines) ==
    IF lines = <<>> THEN <<>>
    ELSE LET l == Head(lines)
             rest == PayloadsOf(Tail(lines))
         IN  IF l \in {LObjFoo, LObjBar}
             THEN <<Str(SubSeq(l, 5, Len(l)))>> \o rest
             ELSE rest

\* line i opens a list and the rest of the text is a block of object items
\* and property lines that begins with an item
ObjectBlockAt(i) ==
    /\ i < Len(text)
    /\ text[i] \in ListKeyLines
    /\ text[i + 1] \in {LObjFoo, LObjBar}
    /\ \A j \in (i + 1)..Len(text) : text[j] \in {LObjFoo, LObjBar, LTags}

AsObjects(maps) == List([i \in 1..Len(maps) |-> Obj(maps[i])])

C9_MalformedSkipped ==
    Parsed =>
        \A i \in 1..Len(text) :
            text[i] \in MalformedLines => parsed = Reparse(Without(text, i))

\* line i is the first line of the text that is not blank, and the next
\* such line starts with whitespace
LeadsIndented(lines, i) ==
    /\ \A j \in 1..(i - 1) : Strip(lines[j]) = <<>>
    /\ \E j \in (i + 1)..Len(lines) :
           /\ Strip(lines[j]) # <<>>
           /\ IsSpace(Head(lines[j]))
           /\ \A m \in (i + 1)..(j - 1) : Strip(lines[m]) = <<>>

\* C9, amended: the same, unless the malformed line is the first non-blank
\* line of the text and the next non-blank line is indented (the readers
\* trim the whole text before splitting it, so deleting that line would
\* remove the indentation of the line after it).
C9_MalformedSkippedUnlessLeading ==
    Parsed =>
        \A i \in 1..Len(text) :
            (text[i] \in MalformedLines /\ ~LeadsIndented(text, i)) =>
                /\ parsed = Reparse(Without(text, i))
                /\ ~DictHas(parsed, <<>>)

\* C9 witness: a reader has skipped a malformed line between a list key
\* and its item, and read the lines around it
C9_Witness ==
    /\ Parsed
    /\ text = <<LItems, LGarbage, LItemA, LScalar>>
    /\ parsed = <<[k |-> KeyOf(LItems), v |-> List(<<Str(<<"a">>)>>)],
                  [k |-> KeyOf(LScalar), v |-> ScalarValue]>>

\* the text is a list key, items, a key with a scalar or inline array value
\* at line j, and at least one more item
OrphanShape(j) ==
    /\ 1 < j /\ j < Len(text)
    /\ text[1] \in ListKeyLines
    /\ text[j] \in ValueKeyLines
    /\ \A i \in 2..Len(text) : i # j => text[i] \in IndentedItemLines

LastKeyLineBefore(i) ==
    LET before == {j \in 1..(i - 1) : text[j] \in KeyLines}
    IN  IF before = {} THEN 0 ELSE CHOOSE j \in before : \A m \in before : m <= j

ReaderListKeys == {RA, RB}
ReaderKeyLines == {RA, RB, RAx, RBy, RC}
ReaderItems == {RP, RQ}

\* the key a line of the pool declares, read by eye
ReaderKeyOf(line) ==
    CASE line \in {RA, RAx} -> <<"a">>
      [] line \in {RB, RBy} -> <<"b">>
      [] line = RC -> <<"c">>
      [] OTHER -> <<"k">>

\* the payload of a bare item of the pool, read by eye
ItemOf(line) == IF line = RP THEN Str(<<"p">>) ELSE Str(<<"q">>)

\* the bare items of lines i..j of the text, in order
ItemsBetween(i, j) ==
    LET lines == SelectSeq(SubSeq(text, i, j), LAMBDA l : l \in ReaderItems)
    IN  List([n \in 1..Len(lines) |-> ItemOf(lines[n])])

\* the first key line after line i, Len(text) + 1 if there is none
NextKeyLineAfter(i) ==
    LET after == {j \in (i + 1)..Len(text) : text[j] \in ReaderKeyLines}
    IN  IF after = {} THEN Len(text) + 1 ELSE CHOOSE j \in after : \A m \in after : j <= m

\* the number of times a mapping holds an item under some key with a list
ListItemCount(m) ==
    LET n == [i \in 1..Len(m) |-> Len(m[i].v.items)]
        sum[i \in 0..Len(m)] == IF i = 0 THEN 0 ELSE sum[i - 1] + n[i]
    IN  sum[Len(m)]

\* lines a < b open lists under two different keys, the lines between them
\* and the lines from b to the next key line are bare items with a payload,
\* and neither key is declared by another line
TwoLists(a, b) ==
    /\ a < b
    /\ text[a] \in ReaderListKeys /\ text[b] \in ReaderListKeys
    /\ ReaderKeyOf(text[a]) # ReaderKeyOf(text[b])
    /\ \A i \in (a + 1)..(NextKeyLineAfter(b) - 1) : i # b => text[i] \in ReaderItems
    /\ \A i \in 1..Len(text) :
           (i \notin {a, b} /\ text[i] \in ReaderKeyLines) =>
               ReaderKeyOf(text[i]) \notin {ReaderKeyOf(text[a]), ReaderKeyOf(text[b])}

\* C11: when the list key B follows the open list key A, the mapping holds
\* under A the items between A and B, in order, and under B the items
\* between B and the next key line; a list key without items maps to the
\* empty sequence, and no item is recorded twice.
C11_SingleCursor ==
    Parsed =>
        /\ \A a, b \in 1..Len(text) :
               TwoLists(a, b) =>
                   /\ DictHas(parsed, ReaderKeyOf(text[a]))
                   /\ DictGet(parsed, ReaderKeyOf(text[a])) = ItemsBetween(a, b)
                   /\ DictHas(parsed, ReaderKeyOf(text[b]))
                   /\ DictGet(parsed, ReaderKeyOf(text[b]))
                          = ItemsBetween(b, NextKeyLineAfter(b) - 1)
        /\ (\A i \in 1..Len(text) : text[i] \in {RA, RB, RAx, RC} \cup ReaderItems) =>
               ListItemCount(parsed)
                   <= Cardinality({i \in 1..Len(text) : text[i] \in ReaderItems})

\* a value with its surrounding quotes removed when the same quote
\* character stands on both ends
StripMatched(value) ==
    IF /\ Len(value) >= 2
       /\ Head(value) \in QuoteChars
       /\ value[Len(value)] = Head(value)
    THEN SubSeq(value, 2, Len(value) - 1)
    ELSE value

\* C12: the scalar of a line  k: <value>  is the value with one matched
\* pair of surrounding quotes removed, and every other character kept.
C12_MatchedQuotesOnly ==
    Parsed =>
        \A value \in QuoteValues :
            text = <<KLine(value)>> =>
                parsed = <<[k |-> <<"k">>, v |-> Str(StripMatched(value))]>>

\* the mapping returned by the other reader for the text
OtherReader ==
    IF yop = "simple" THEN parse_yaml_frontmatter(<<Dashes>> \o text \o <<Dashes>>)
    ELSE parse_yaml_simple(text)

\* C13: parse_yaml_simple and parse_yaml_frontmatter return the same
\* mapping for every text of top-level scalar keys, inline arrays and block
\* lists of bare items, indented or not, empty items included.
C13_SameReader ==
    (Parsed /\ text \in SeqsUpTo(ReaderPool, MaxLines)) => parsed = OtherReader

\* the keys of a sequence of key lines, each at its first occurrence
RECURSIVE FirstKeys(_, _)
FirstKeys(lines, seen) ==
    IF lines = <<>> THEN seen
    ELSE LET key == ReaderKeyOf(Head(lines))
         IN  FirstKeys(Tail(lines),
                       IF \E i \in 1..Len(seen) : seen[i] = key THEN seen
                       ELSE Append(seen, key))

DocLines == Split(doc, NL)

\* line h is the only header row of the document, the separator row follows
\* it, then rows up to line r, the line that starts with *Run
TableAt(h, r) ==
    /\ h + 1 < r /\ r <= Len(DocLines)
    /\ DocLines[h] = TableHeader
    /\ \A i \in 1..Len(DocLines) : DocLines[i] = TableHeader => i = h
    /\ DocLines[h + 1] = TSep
    /\ DocLines[r] = TRun
    /\ \A i \in (h + 2)..(r - 1) : DocLines[i] \in {TRow, TDash}

\* the document with the rows of its table replaced by one rendered row per
\* module, in order, and an empty line before the line that starts with *Run
WithRows(h, r, ms) ==
    JoinLines(SubSeq(DocLines, 1, h + 1)
                  \o [i \in 1..Len(ms) |-> TableRow(ms[i])]
                  \o <<TBlank>>
                  \o SubSeq(DocLines, r, Len(DocLines)))

\* C14: update_core_modules_table replaces the rows of the table by one
\* rendered row per module, in order, and keeps the header row, the
\* separator row, the line that starts with *Run and the rest of the
\* document; it returns a document without a header row or without a *Run
\* line unchanged; a second call with the same modules changes nothing.
C14_TableRows ==
    /\ op \in {"table", "table2"} =>
           /\ \A h, r \in 1..Len(DocLines) :
                  TableAt(h, r) => out = WithRows(h, r, modules)
           /\ (\A i \in 1..Len(DocLines) : DocLines[i] # TableHeader) => out = doc
           /\ (\A i \in 1..Len(DocLines) : DocLines[i] # TRun) => out = doc
    /\ op = "table2" => out2 = out

(***************************************************************************)
(* Properties of sync_skill.                                               *)
(***************************************************************************)
\* a run of sync_skill that read SKILL.md and returned its dict
SyncReturned ==
    call > 0 /\ found[SkillPath] # Absent /\ result.error # "re.error"

\* what sync_skill looks for in SKILL.md, by the name it reports it under
Located(d, region_name) ==
    IF region_name = "Core Modules" THEN TableSearch(d, 1) # NoTable
    ELSE RegionSearch(d, region_name, 1) # NoMatch

Reported(region_name) ==
    \E i \in 1..Len(result.updated_regions) : result.updated_regions[i] = region_name

\* C15: SKILL.md is written only when the transform succeeded: when the
\* marker pair of References or of Config, or the Core Modules table, is
\* not found in SKILL.md, the file is left as it was and that region is not
\* reported in updated_regions.
C15_WriteOnlyOnSuccess ==
    SyncReturned =>
        \A i \in 1..Len(AllRegions) :
            ~Located(found[SkillPath], AllRegions[i]) =>
                /\ files = found
                /\ ~Reported(AllRegions[i])

\* the value of last_tracked_commit in the yaml block of the Config region
\* of d: the text between the quotes of its line; None when d has no such
\* line
ConfigCommit(d) ==
    LET region == read_region(d, "Config")
        prefix == CommitKey \o <<":", " ", "\"">>
        lines == IF region = None THEN <<>> ELSE Split(region, NL)
        at == {i \in 1..Len(lines) :
                  /\ StartsWith(lines[i], prefix)
                  /\ Len(lines[i]) > Len(prefix)
                  /\ lines[i][Len(lines[i])] = "\""}
    IN  IF at = {} THEN None
        ELSE LET l == lines[CHOOSE i \in at : \A j \in at : i <= j]
             IN  SubSeq(l, Len(prefix) + 1, Len(l) - 1)

\* C17: a run without a commit on a SKILL.md whose Config region holds
\* last_tracked_commit = v leaves last_tracked_commit = v there (so any
\* number of such runs does), and a run with the commit c leaves
\* last_tracked_commit = c.
C17_CommitKept ==
    (call > 0 /\ found[SkillPath] # Absent
        /\ ConfigCommit(found[SkillPath]) # None) =>
        ConfigCommit(files[SkillPath]) =
            IF args.commit = None THEN ConfigCommit(found[SkillPath])
            ELSE args.commit

(***************************************************************************)
(* Properties of copy_templates.                                           *)
(***************************************************************************)
\* a call of copy_templates that returned its dict
CopyReturned == call > 0 /\ result.error = ""

Listed(list, name) == \E i \in 1..Len(list) : list[i] = name

\* the number of the three lists that name the file
ListsNaming(name) ==
    Cardinality({l \in {"created", "updated", "skipped"} : Listed(result[l], name)})

HasError(field, message) ==
    \E i \in 1..Len(result) : result[i] = ValidationError(field, message)

\* a validated document for which the BST rules can be evaluated: all
\* required fields, a valid stage, all six stats
BstEvaluable ==
    /\ call = 1
    /\ args.has_root
    /\ args.fields = AllFields
    /\ args.stage \in {"baby", "mature", "adult"}
    /\ \A i \in 1..Len(stat_fields) : stat_fields[i] \in args.stats.has

DeclaredBst == IF "bst" \in args.stats.has THEN args.stats.val["bst"] ELSE 0

SixSum ==
    args.stats.val["hp"] + args.stats.val["attack"] + args.stats.val["defense"]
        + args.stats.val["sp_attack"] + args.stats.val["sp_defense"]
        + args.stats.val["speed"]

StageLow == CASE args.stage = "baby" -> 250 [] args.stage = "mature" -> 350 [] OTHER -> 450
StageHigh == CASE args.stage = "baby" -> 350 [] args.stage = "mature" -> 450 [] OTHER -> 550

\* C19: whenever the BST rules can be evaluated, a stats.bst error is
\* reported if the declared bst differs from the sum of the six stats,
\* another if it is outside the range of the stage, and a stats.<name>
\* error for each stat outside 1..255, whatever else is invalid.
C19_BstRulesReported ==
    BstEvaluable =>
        /\ DeclaredBst # SixSum => HasError("stats.bst", "sum")
        /\ (DeclaredBst < StageLow \/ DeclaredBst > StageHigh) =>
               HasError("stats.bst", "range")
        /\ \A i \in 1..Len(stat_fields) :
               (args.stats.val[stat_fields[i]] < 1 \/ args.stats.val[stat_fields[i]] > 255) =>
                   HasError("stats." \o stat_fields[i], "value")

(***************************************************************************)
(* Properties of create_module.                                            *)
(***************************************************************************)
\* C20: create_module changes nothing on failure: a name that is not
\* kebab-case, a missing references directory, an existing module file or
\* a missing template gives success = false with an error and leaves the
\* file system as it was; so a module file that exists is never modified
\* by a later call.
C20_FailureChangesNothing ==
    call > 0 =>
        /\ (\/ ~IsKebab(args.module_name)
            \/ ~found.references_dir
            \/ found.module[args.module_name] # Absent
            \/ found.template = Absent) =>
               /\ ~result.success
               /\ result.error # ""
               /\ files = found
        /\ \A name \in ModuleNames :
               found.module[name] # Absent => files.module[name] = found.module[name]

(***************************************************************************)
(* Properties of scan_references and generate_references_content.          *)
(***************************************************************************)
ScanReturned == call = 1 /\ DOMAIN found = ReferencePaths \cup {ReferencesDir}

\* the entries of references/ named *.md, files and sub-directories
MdEntries ==
    IF found[ReferencesDir] = Absent THEN {}
    ELSE {p \in ReferencePaths :
              found[p] # Absent /\ EndsWith(FileName(p), <<".", "m", "d">>)}

\* the regular files among them
MdFiles == {p \in MdEntries : found[p] # Directory}

ContentLines ==
    IF result.content = <<>> THEN <<>> ELSE Split(result.content, NL)

\* the lines of the content that link the entry p
LinesOf(p) ==
    {i \in 1..Len(ContentLines) :
        StartsWith(ContentLines[i], ReferenceLine(FileName(p), <<>>))}
LineOf(p) == CHOOSE i \in LinesOf(p) : TRUE

NamedModule(p) == StartsWith(FileName(p), ModulePrefix)

\* the names of ReferencePaths in ascending order of their code points:
\* Z.md, module_a-b.md, module_a.md, modules.md, notes.txt, overview.md
AscendingNames ==
    <<UpperPath, DashedModulePath, ModulePath, ModulesPath, NotesPath, OtherPath>>
Rank(p) == CHOOSE i \in 1..Len(AscendingNames) : AscendingNames[i] = p

\* the module file p has no yaml block in a Config region, or cannot be read
Unparsable(p) ==
    found[p] = Directory \/ read_region(found[p], "Config") \in {None, <<>>}

ListedIn(list, p) ==
    \E i \in 1..Len(list) : DictGet(list[i], FileKey).s = FileName(p)

ClassifiedAndOrdered ==
    /\ \A p \in MdEntries :
          /\ Cardinality(LinesOf(p)) = 1
          /\ ListedIn(modules, p) <=> NamedModule(p)
          /\ ListedIn(result.other_files, p) <=> ~NamedModule(p)
          /\ NamedModule(p) /\ Unparsable(p) =>
                ContentLines[LineOf(p)] =
                    ReferenceLine(FileName(p),
                                  SubSeq(Stem(FileName(p)), 8, Len(Stem(FileName(p))))
                                      \o <<" ", "m", "o", "d", "u", "l", "e">>)
    /\ \A p, q \in MdEntries :
          /\ ~NamedModule(p) /\ NamedModule(q) => LineOf(p) < LineOf(q)
          /\ NamedModule(p) = NamedModule(q) /\ Rank(p) < Rank(q) =>
                LineOf(p) < LineOf(q)

\* C21: the References content has exactly one line per *.md file
\* of the references directory, each file is a module iff its name starts
\* with module_ (with a default description when its Config cannot be
\* parsed), the other files come before the modules, and each group is in
\* ascending file name order
C21_OneLinePerFile ==
    ScanReturned =>
        /\ Len(ContentLines) = Cardinality(MdFiles)
        /\ \A i \in 1..Len(ContentLines) : \E p \in MdFiles : i \in LinesOf(p)
        /\ ClassifiedAndOrdered

(***************************************************************************)
(* Properties of ValidationResult.                                         *)
(***************************************************************************)
\* the calls of one method made so far, in call order
CallsOf(method) == SelectSeq(args, LAMBDA c : c.method = method)

\* C22: after any sequence of ok, fail and warn calls, passed, failed and
\* warnings are the numbers of ok, fail and warn calls, errors holds one
\* entry per fail call in call order, and is_success() is true iff fail
\* was never called, whatever the number of warnings; main exits with 0
\* exactly then
C22_Bookkeeping ==
    /\ result.passed = Len(CallsOf("ok"))
    /\ result.failed = Len(CallsOf("fail"))
    /\ result.warnings = Len(CallsOf("warn"))
    /\ Len(result.errors) = result.failed
    /\ \A i \in 1..Len(result.errors) :
          result.errors[i] = <<CallsOf("fail")[i].msg, CallsOf("fail")[i].suggestion>>
    /\ is_success(result) <=> CallsOf("fail") = <<>>
    /\ found # NotExited => (found.code = 0 <=> CallsOf("fail") = <<>>)

C22_Witness ==
    /\ Len(args) = 4
    /\ args[1].method = "fail" /\ args[1].msg = "m2"
    /\ args[2].method = "warn"
    /\ args[3].method = "ok"
    /\ args[4].method = "fail" /\ args[4].msg = "m1" /\ args[4].suggestion = "s"
    /\ result.errors = <<<<"m2", "">>, <<"m1", "s">>>>
    /\ result.warnings = 1
    /\ ~is_success(result)
    /\ found # NotExited /\ found.code = 1
=============================================================================
